---- MODULE Spec2Model ----
(***************************************************************************)
(* Data Registry access-control and audit model of                         *)
(* corehq/apps/registry/models.py.                                         *)
(*                                                                         *)
(* The relational store is four tables (registries, invitations, grants,   *)
(* audit_logs), each a sequence of rows in insertion order; a row's id is  *)
(* its position.  A request runs one model method.  Methods decorated with *)
(* transaction.atomic write to a private view of the store (tx) and the    *)
(* view replaces the store on commit; an exception at any step discards    *)
(* the view.  last is the outcome of the latest finished call.             *)
(*                                                                         *)
(* sessions holds requests that run concurrently, each with its own open   *)
(* transaction, so that the unique_together constraints are exercised at   *)
(* INSERT time.                                                            *)
(*                                                                         *)
(* The case hierarchy of corehq/apps/reports/view_helpers.py is modelled   *)
(* on a case database (cases) of cases linked by indices; traversal is     *)
(* the outcome of the latest get_case_hierarchy / case_hierarchy_context   *)
(* call.                                                                   *)
(*                                                                         *)
(* copies holds the DataRegistry objects that concurrent requests loaded   *)
(* before calling activate / deactivate on them.                           *)
(*                                                                         *)
(* The attendee tasks of corehq/apps/events/tasks.py run on a table of     *)
(* attendee cases (attendees); locks holds the critical section keys that  *)
(* tasks have acquired, tasks the position and the locals of each          *)
(* running task, submitted the number of closing forms each domain has     *)
(* been sent, and runs the number of task runs that were started.          *)
(***************************************************************************)
EXTENDS Integers, Sequences, FiniteSets, TLC

\* ---------------------------------------------------------------- bounds
\* The number of calls that change the store in one behaviour.
MaxCalls == 3

\* The number of distinct opened_on / closed_on timestamps.
MaxTime == 2

\* ---------------------------------------------------------------- inputs
Domains == {"alpha", "beta"}
Users == {"u1"}
\* A registry name is the sequence of its words.
Names == {<<"Reg">>, <<"The", "Reg">>}
OneName == {<<"The", "Reg">>}
ToDomainChoices == {<<"alpha">>, <<"beta">>, <<"alpha", "beta">>}
Schemas == {"s1"}
\* What a caller may pass as related object: None, an object with no
\* doc_type, a report configuration, an application, another document.
RelatedObjects ==
    {[truthy |-> FALSE, has_doc_type |-> FALSE, doc_type |-> "", get_id |-> ""],
     [truthy |-> TRUE, has_doc_type |-> FALSE, doc_type |-> "", get_id |-> "obj1"],
     [truthy |-> TRUE, has_doc_type |-> TRUE, doc_type |-> "ReportConfiguration",
      get_id |-> "ucr1"],
     [truthy |-> TRUE, has_doc_type |-> TRUE, doc_type |-> "Application",
      get_id |-> "app1"],
     [truthy |-> TRUE, has_doc_type |-> TRUE, doc_type |-> "CommCareCase",
      get_id |-> "case1"]}

\* sessions: the concurrent requests, each inside its own transaction.
\* cases: the case records a traversal reads; traversal: the outcome of the
\* latest case hierarchy call.
\* copies: the DataRegistry object each concurrent request has loaded.
\* attendees: the attendee cases of the events app; locks: the critical
\* section keys that are held, each with the task that holds it; tasks: the
\* celery tasks that run.
VARIABLES registries, invitations, grants, audit_logs, tx, last,
          sessions, cases, traversal, copies, attendees, locks, tasks, submitted,
          runs

event_vars == <<attendees, locks, tasks, submitted, runs>>

vars == <<registries, invitations, grants, audit_logs, tx, last,
          sessions, cases, traversal, copies, event_vars>>

\* ------------------------------------------------------------- constants
STATUS_PENDING == "pending"
STATUS_ACCEPTED == "accepted"
STATUS_REJECTED == "rejected"

ACTION_ACTIVATED == "activated"
ACTION_DEACTIVATED == "deactivated"
ACTION_INVITATION_ADDED == "invitation_added"
ACTION_INVITATION_REMOVED == "invitation_removed"
ACTION_INVITATION_ACCEPTED == "invitation_accepted"
ACTION_INVITATION_REJECTED == "invitation_rejected"
ACTION_GRANT_ADDED == "grant_added"
ACTION_GRANT_REMOVED == "grant_removed"
ACTION_SCHEMA_CHANGED == "schema"
ACTION_DATA_ACCESSED == "data_accessed"

RELATED_OBJECT_REGISTRY == "registry"
RELATED_OBJECT_INVITATION == "invitation"
RELATED_OBJECT_GRANT == "grant"
RELATED_OBJECT_UCR == "ucr"
RELATED_OBJECT_APPLICATION == "application"

\* ------------------------------------------------------------ sequences
Range(s) == {s[i] : i \in 1..Len(s)}

IsPrefix(s, t) == Len(s) <= Len(t) /\ \A i \in 1..Len(s) : s[i] = t[i]

\* ------------------------------------------------------ slug generation
\* django.utils.text.slugify lower-cases the text and joins its words with
\* "-"; the words of the result are what split('-') gives back.
Lower(w) == CASE w = "Reg" -> "reg" [] w = "The" -> "the" [] OTHER -> w

slugify(text) == [i \in 1..Len(text) |-> Lower(text[i])]

domain_name_stop_words == {"the", "of", "and"}

IsNotStopWord(word) == word \notin domain_name_stop_words

\* The slug is kept as its words (the "-".join is one to one on them) and
\* the index the slug field appended to make it unique (1: none).
slugify_remove_stops(text) == SelectSeq(slugify(text), IsNotStopWord)

\* Mutant of AutoSlug: a plain slug field, with no unique_with.
AutoSlugNotUnique(regs, domain, name) ==
    [words |-> slugify_remove_stops(name), n |-> 1]

\* AutoSlugField(unique_with='domain'): the first of slug, slug-2, slug-3 ...
\* that no registry of the domain uses.
SlugTaken(regs, domain, words, n) ==
    \E i \in 1..Len(regs) :
        /\ regs[i].domain = domain
        /\ regs[i].slug = [words |-> words, n |-> n]

AutoSlug(regs, domain, name) ==
    LET words == slugify_remove_stops(name)
        n == CHOOSE k \in 1..(Len(regs) + 1) :
                 /\ ~SlugTaken(regs, domain, words, k)
                 /\ \A m \in 1..(k - 1) : SlugTaken(regs, domain, words, m)
    IN  [words |-> words, n |-> n]

\* ------------------------------------------------------------------ rows
RegistryRow(regs, domain, name) ==
    [domain |-> domain, name |-> name, slug |-> AutoSlug(regs, domain, name),
     is_active |-> TRUE]

InvitationRow(rid, domain, status) ==
    [registry |-> rid, domain |-> domain, status |-> status]

GrantRow(rid, from_domain, to_domains) ==
    [registry |-> rid, from_domain |-> from_domain, to_domains |-> to_domains]

AuditRow(rid, user, action, domain, related_object_id, related_object_type, detail) ==
    [registry |-> rid, user |-> user, action |-> action, domain |-> domain,
     related_object_id |-> related_object_id,
     related_object_type |-> related_object_type, detail |-> detail]

\* JSON values of the detail column.
DetailNull == <<"null">>
DetailEmpty == <<>>

\* --------------------------------------------------- calls and outcomes
NoValue == {}
NoObject == [truthy |-> FALSE, has_doc_type |-> FALSE, doc_type |-> "", get_id |-> ""]

\* The outcome of a finished call: the exception it raised or "ok", the set
\* it returned, and whether it wrote to the store.
Outcome(op, rid, inv, domain, name, obj, result, value, changed) ==
    [op |-> op, rid |-> rid, inv |-> inv, domain |-> domain, name |-> name,
     obj |-> obj, result |-> result, value |-> value, changed |-> changed]

NoCall == Outcome("none", 0, 0, "", <<>>, NoObject, "ok", NoValue, FALSE)

\* The request in flight inside transaction.atomic: the call, where it is,
\* the objects it loaded and its uncommitted view of the tables it writes.
Tx(op, pc, user, rid, inv, domain, name, regs, invs, logs) ==
    [op |-> op, pc |-> pc, user |-> user, rid |-> rid, inv |-> inv,
     domain |-> domain, name |-> name,
     registries |-> regs, invitations |-> invs, audit_logs |-> logs]

NoTx == Tx("none", "idle", "", 0, 0, "", <<>>, <<>>, <<>>, <<>>)

Idle == tx = NoTx

\* The calls that changed the store so far: create adds a registry, an
\* invitation and an audit row; every other call that writes adds one row.
StoreCalls ==
    Len(audit_logs) + (Len(invitations) - Len(registries)) + Len(grants)

MayWrite == StoreCalls < MaxCalls

\* The requests that run at the same time, each on its own connection.
Procs == {1, 2}

\* A concurrent request: the call, where it is, its arguments, the slug the
\* slug field computed, and the outcome of the request's latest call.
Session(op, pc, user, rid, domain, name, slug, result) ==
    [op |-> op, pc |-> pc, user |-> user, rid |-> rid, domain |-> domain,
     name |-> name, slug |-> slug, result |-> result]

NoSlug == [words |-> <<>>, n |-> 0]

NoSession == Session("none", "idle", "", 0, "", <<>>, NoSlug, "ok")

\* The DataRegistry object a concurrent request holds: the row as it was
\* loaded, with what the request has assigned to it since.
Copy(op, pc, user, rid, registry) ==
    [op |-> op, pc |-> pc, user |-> user, rid |-> rid, registry |-> registry]

NoRegistry == [domain |-> "", name |-> <<>>, slug |-> NoSlug, is_active |-> FALSE]

NoCopy == Copy("none", "none", "", 0, NoRegistry)

\* A celery task of the events app: where it is, the domain it runs on, the
\* mapping it read, the users it has still to look at, the closed cases it
\* collected, the closing transactions it has still to archive and the case
\* changes it built.
Task(op, pc, domain, user_id_model_mapping, users, closed_cases, transactions, case_changes) ==
    [op |-> op, pc |-> pc, domain |-> domain,
     user_id_model_mapping |-> user_id_model_mapping, users |-> users,
     closed_cases |-> closed_cases, transactions |-> transactions,
     case_changes |-> case_changes]

NoMapping == <<>>

NoTask == Task("none", "idle", "", NoMapping, <<>>, <<>>, <<>>, <<>>)

\* No case record, and no case hierarchy call made yet.
NoCases == <<>>

NoTraversal == [op |-> "none", root |-> "", result |-> "ok", case_list |-> <<>>]

Init ==
    /\ registries = <<>>
    /\ invitations = <<>>
    /\ grants = <<>>
    /\ audit_logs = <<>>
    /\ tx = NoTx
    /\ last = NoCall
    /\ sessions = [p \in Procs |-> NoSession]
    /\ cases = NoCases
    /\ traversal = NoTraversal
    /\ copies = [p \in Procs |-> NoCopy]
    /\ attendees = <<>>
    /\ locks = {}
    /\ tasks = [p \in Procs |-> NoTask]
    /\ submitted = [domain \in Domains |-> 0]
    /\ runs = 0

\* ------------------------------------------------------------ the store
\* Mutant of AuditCreate: update_or_create, which overwrites the newest row.
AuditUpdateOrCreate(logs, row) ==
    IF logs = <<>> THEN Append(logs, row) ELSE [logs EXCEPT ![Len(logs)] = row]

\* RegistryAuditLog.objects.create(...): one row is inserted after the
\* rows the table holds.
AuditCreate(logs, row) == Append(logs, row)

\* Mutant of transaction_atomic: no atomic block, every save is committed
\* as it is made.
transaction_autocommit(current, written) == written

\* @transaction.atomic: what the store shows for a table while the block
\* that wrote `written` to it has not committed.
transaction_atomic(current, written) == current

\* Mutant of OwnerInvitationStatus: the status argument left out, so the
\* column's default applies.
OwnerInvitationStatusDefault == STATUS_PENDING

\* line 77: the owning domain's invitation is created accepted.
OwnerInvitationStatus == STATUS_ACCEPTED

\* --------------------------------------------------- RegistryAuditHelper
_log_invitation_added_removed(rid, user, invs, inv, is_added) ==
    AuditRow(rid, user,
             IF is_added THEN ACTION_INVITATION_ADDED ELSE ACTION_INVITATION_REMOVED,
             invs[inv].domain, inv, RELATED_OBJECT_INVITATION,
             IF is_added THEN DetailEmpty
             ELSE <<"invitation_status", invs[inv].status>>)

\* ---------------------------------------------------- DataRegistry.create
\* line 74: DataRegistry.objects.create(domain=domain, name=name)
CreateRegistry(user, domain, name) ==
    /\ Idle
    /\ MayWrite
    /\ tx' = Tx("create", "registry_saved", user, Len(registries) + 1, 0, domain, name,
                Append(registries, RegistryRow(registries, domain, name)),
                invitations, audit_logs)
    /\ registries' = transaction_atomic(registries, tx'.registries)
    /\ last' = NoCall
    /\ UNCHANGED <<invitations, grants, audit_logs>>
    /\ UNCHANGED <<sessions, cases, traversal, copies, event_vars>>

\* lines 76-78: registry.invitations.create(domain=domain, status=accepted)
CreateOwnerInvitation ==
    /\ tx.op = "create" /\ tx.pc = "registry_saved"
    /\ tx' = [tx EXCEPT !.pc = "invitation_saved",
                        !.inv = Len(tx.invitations) + 1,
                        !.invitations = Append(@, InvitationRow(tx.rid, tx.domain,
                                                                OwnerInvitationStatus))]
    /\ invitations' = transaction_atomic(invitations, tx'.invitations)
    /\ UNCHANGED <<registries, grants, audit_logs, last>>
    /\ UNCHANGED <<sessions, cases, traversal, copies, event_vars>>

\* The rows a transaction inserted become rows of the table as it is at the
\* commit: what other requests committed to the table meanwhile stays.
Inserted(table, view) == table \o SubSeq(view, Len(table) + 1, Len(view))

\* line 79 and the end of the atomic block: the audit row is written and the
\* transaction commits its three INSERTs.
CreateLogAndCommit ==
    /\ tx.op = "create" /\ tx.pc = "invitation_saved"
    /\ registries' = Inserted(registries, tx.registries)
    /\ invitations' = Inserted(invitations, tx.invitations)
    /\ audit_logs' = AuditCreate(audit_logs,
            _log_invitation_added_removed(tx.rid, tx.user, tx.invitations, tx.inv, TRUE))
    /\ tx' = NoTx
    /\ last' = Outcome("create", tx.rid, tx.inv, tx.domain, tx.name, NoObject,
                       "ok", NoValue, TRUE)
    /\ UNCHANGED grants
    /\ UNCHANGED <<sessions, cases, traversal, copies, event_vars>>

_log_registry_activated_deactivated(rid, user, regs, is_activated) ==
    AuditRow(rid, user,
             IF is_activated THEN ACTION_ACTIVATED ELSE ACTION_DEACTIVATED,
             regs[rid].domain, rid, RELATED_OBJECT_REGISTRY, DetailNull)

_log_invitation_accepted_rejected(rid, user, invs, inv, is_accepted) ==
    AuditRow(rid, user,
             IF is_accepted THEN ACTION_INVITATION_ACCEPTED
             ELSE ACTION_INVITATION_REJECTED,
             invs[inv].domain, inv, RELATED_OBJECT_INVITATION, DetailNull)

\* ------------------------------------------ DataRegistry.activate/deactivate
\* Mutant of ActivateNeeded: the test left out.
ActivateAlways(reg) == TRUE

\* line 84: if not self.is_active
ActivateNeeded(reg) == ~reg.is_active

\* line 91: if self.is_active
DeactivateNeeded(reg) == reg.is_active

\* lines 84-86: the loaded registry is tested, flipped and saved; a registry
\* already active is left alone and the call returns.
activate(rid, user) ==
    /\ Idle
    /\ rid \in DOMAIN registries
    /\ IF ActivateNeeded(registries[rid])
       THEN /\ MayWrite
            /\ tx' = Tx("activate", "saved", user, rid, 0, registries[rid].domain,
                        registries[rid].name,
                        [registries EXCEPT ![rid].is_active = TRUE],
                        invitations, audit_logs)
            /\ registries' = transaction_atomic(registries, tx'.registries)
            /\ last' = NoCall
       ELSE /\ tx' = NoTx
            /\ UNCHANGED registries
            /\ last' = Outcome("activate", rid, 0, registries[rid].domain,
                               registries[rid].name, NoObject, "ok", NoValue, FALSE)
    /\ UNCHANGED <<invitations, grants, audit_logs>>
    /\ UNCHANGED <<sessions, cases, traversal, copies, event_vars>>

\* lines 91-93
deactivate(rid, user) ==
    /\ Idle
    /\ rid \in DOMAIN registries
    /\ IF DeactivateNeeded(registries[rid])
       THEN /\ MayWrite
            /\ tx' = Tx("deactivate", "saved", user, rid, 0, registries[rid].domain,
                        registries[rid].name,
                        [registries EXCEPT ![rid].is_active = FALSE],
                        invitations, audit_logs)
            /\ registries' = transaction_atomic(registries, tx'.registries)
            /\ last' = NoCall
       ELSE /\ tx' = NoTx
            /\ UNCHANGED registries
            /\ last' = Outcome("deactivate", rid, 0, registries[rid].domain,
                               registries[rid].name, NoObject, "ok", NoValue, FALSE)
    /\ UNCHANGED <<invitations, grants, audit_logs>>
    /\ UNCHANGED <<sessions, cases, traversal, copies, event_vars>>

\* line 87 and the end of the atomic block
registry_activated ==
    /\ tx.op = "activate" /\ tx.pc = "saved"
    /\ registries' = tx.registries
    /\ audit_logs' = AuditCreate(tx.audit_logs,
            _log_registry_activated_deactivated(tx.rid, tx.user, tx.registries, TRUE))
    /\ tx' = NoTx
    /\ last' = Outcome("activate", tx.rid, 0, tx.domain, tx.name, NoObject,
                       "ok", NoValue, TRUE)
    /\ UNCHANGED <<invitations, grants>>
    /\ UNCHANGED <<sessions, cases, traversal, copies, event_vars>>

\* line 94 and the end of the atomic block
registry_deactivated ==
    /\ tx.op = "deactivate" /\ tx.pc = "saved"
    /\ registries' = tx.registries
    /\ audit_logs' = AuditCreate(tx.audit_logs,
            _log_registry_activated_deactivated(tx.rid, tx.user, tx.registries, FALSE))
    /\ tx' = NoTx
    /\ last' = Outcome("deactivate", tx.rid, 0, tx.domain, tx.name, NoObject,
                       "ok", NoValue, TRUE)
    /\ UNCHANGED <<invitations, grants>>
    /\ UNCHANGED <<sessions, cases, traversal, copies, event_vars>>

\* --------------------------------------------- RegistryInvitation rows
\* registry.invitations.create(domain=domain): status defaults to pending
\* (line 147); unique_together (registry, domain) rejects a second row.
InvitationExists(invs, rid, domain) ==
    \E i \in 1..Len(invs) : invs[i].registry = rid /\ invs[i].domain = domain

InvitationCreate(rid, domain) ==
    /\ Idle
    /\ rid \in DOMAIN registries
    /\ IF InvitationExists(invitations, rid, domain)
       THEN /\ UNCHANGED invitations
            /\ last' = Outcome("invitation_create", rid, 0, domain, <<>>, NoObject,
                               "IntegrityError", NoValue, FALSE)
       ELSE /\ MayWrite
            /\ invitations' = Append(invitations,
                                     InvitationRow(rid, domain, STATUS_PENDING))
            /\ last' = Outcome("invitation_create", rid, Len(invitations) + 1, domain,
                               <<>>, NoObject, "ok", NoValue, TRUE)
    /\ UNCHANGED <<registries, grants, audit_logs, tx>>
    /\ UNCHANGED <<sessions, cases, traversal, copies, event_vars>>

\* ------------------------------------- RegistryInvitation.accept / reject
\* line 154: self.status = self.STATUS_ACCEPTED
AcceptedStatus(status) == STATUS_ACCEPTED

\* Mutant of RejectedStatus: an accepted invitation is left as it is.
RejectedStatusUnlessAccepted(status) ==
    IF status = STATUS_ACCEPTED THEN status ELSE STATUS_REJECTED

\* line 160: self.status = self.STATUS_REJECTED
RejectedStatus(status) == STATUS_REJECTED

\* lines 154-155
accept(inv, user) ==
    /\ Idle
    /\ inv \in DOMAIN invitations
    /\ MayWrite
    /\ tx' = Tx("accept", "saved", user, invitations[inv].registry, inv,
                invitations[inv].domain, <<>>, registries,
                [invitations EXCEPT ![inv].status = AcceptedStatus(@)], audit_logs)
    /\ invitations' = transaction_atomic(invitations, tx'.invitations)
    /\ last' = NoCall
    /\ UNCHANGED <<registries, grants, audit_logs>>
    /\ UNCHANGED <<sessions, cases, traversal, copies, event_vars>>

\* lines 160-161
reject(inv, user) ==
    /\ Idle
    /\ inv \in DOMAIN invitations
    /\ MayWrite
    /\ tx' = Tx("reject", "saved", user, invitations[inv].registry, inv,
                invitations[inv].domain, <<>>, registries,
                [invitations EXCEPT ![inv].status = RejectedStatus(@)], audit_logs)
    /\ invitations' = transaction_atomic(invitations, tx'.invitations)
    /\ last' = NoCall
    /\ UNCHANGED <<registries, grants, audit_logs>>
    /\ UNCHANGED <<sessions, cases, traversal, copies, event_vars>>

\* line 156 and the end of the atomic block
invitation_accepted ==
    /\ tx.op = "accept" /\ tx.pc = "saved"
    /\ invitations' = tx.invitations
    /\ audit_logs' = AuditCreate(tx.audit_logs,
            _log_invitation_accepted_rejected(tx.rid, tx.user, tx.invitations, tx.inv, TRUE))
    /\ tx' = NoTx
    /\ last' = Outcome("accept", tx.rid, tx.inv, tx.domain, <<>>, NoObject,
                       "ok", NoValue, TRUE)
    /\ UNCHANGED <<registries, grants>>
    /\ UNCHANGED <<sessions, cases, traversal, copies, event_vars>>

\* line 162 and the end of the atomic block
invitation_rejected ==
    /\ tx.op = "reject" /\ tx.pc = "saved"
    /\ invitations' = tx.invitations
    /\ audit_logs' = AuditCreate(tx.audit_logs,
            _log_invitation_accepted_rejected(tx.rid, tx.user, tx.invitations, tx.inv, FALSE))
    /\ tx' = NoTx
    /\ last' = Outcome("reject", tx.rid, tx.inv, tx.domain, <<>>, NoObject,
                       "ok", NoValue, TRUE)
    /\ UNCHANGED <<registries, grants>>
    /\ UNCHANGED <<sessions, cases, traversal, copies, event_vars>>

\* ----------------------------------------------------- RegistryGrant rows
\* registry.grants.create(from_domain=..., to_domains=[...]): the model puts
\* no condition on either column.
GrantCreate(rid, from_domain, to_domains) ==
    /\ Idle
    /\ rid \in DOMAIN registries
    /\ MayWrite
    /\ grants' = Append(grants, GrantRow(rid, from_domain, to_domains))
    /\ last' = Outcome("grant_create", rid, 0, from_domain, <<>>, NoObject,
                       "ok", NoValue, TRUE)
    /\ UNCHANGED <<registries, invitations, audit_logs, tx>>
    /\ UNCHANGED <<sessions, cases, traversal, copies, event_vars>>

\* ------------------------------------------------------------ the queries
RegistryAccessDenied == "RegistryAccessDenied"

\* self.invitations.filter(domain=domain), in creation order
InvitesOf(invs, rid, domain) ==
    LET Match(row) == row.registry = rid /\ row.domain = domain
    IN  SelectSeq(invs, Match)

\* Mutant of check_access: the is_active test left out.
check_access_ignoring_active(reg, invs, rid, domain) ==
    LET invites == InvitesOf(invs, rid, domain)
    IN  IF invites = <<>> THEN RegistryAccessDenied
        ELSE IF invites[1].status # STATUS_ACCEPTED THEN RegistryAccessDenied
        ELSE "ok"

\* lines 109-117
check_access(reg, invs, rid, domain) ==
    IF ~reg.is_active THEN RegistryAccessDenied
    ELSE LET invites == InvitesOf(invs, rid, domain)
         IN  IF invites = <<>> THEN RegistryAccessDenied
             ELSE IF invites[1].status # STATUS_ACCEPTED THEN RegistryAccessDenied
             ELSE "ok"

\* Mutant of GrantedFrom: a second hop of grants is followed.
GrantedFromTransitive(grs, rid, domain) ==
    LET Hop(ds) == {grs[i].from_domain : i \in {j \in 1..Len(grs) :
                       grs[j].registry = rid /\ Range(grs[j].to_domains) \cap ds # {}}}
    IN  Hop({domain}) \cup Hop(Hop({domain}))

\* lines 98-101: self.grants.filter(to_domains__contains=[domain])
\*                   .values_list('from_domain', flat=True)
GrantedFrom(grs, rid, domain) ==
    {grs[i].from_domain : i \in {j \in 1..Len(grs) :
        grs[j].registry = rid /\ domain \in Range(grs[j].to_domains)}}

\* lines 97-101
get_granted_domains(reg, invs, grs, rid, domain) ==
    IF check_access(reg, invs, rid, domain) # "ok"
    THEN [result |-> RegistryAccessDenied, value |-> NoValue]
    ELSE [result |-> "ok", value |-> GrantedFrom(grs, rid, domain)]

\* Mutant of get_participating_domains: an inactive registry has no
\* participants.
get_participating_domains_if_active(reg, invs, rid) ==
    IF ~reg.is_active THEN {}
    ELSE {invs[i].domain : i \in {j \in 1..Len(invs) :
             invs[j].registry = rid /\ invs[j].status = STATUS_ACCEPTED}}

\* lines 104-106
get_participating_domains(reg, invs, rid) ==
    {invs[i].domain : i \in {j \in 1..Len(invs) :
        invs[j].registry = rid /\ invs[j].status = STATUS_ACCEPTED}}

\* Mutant of check_ownership: an inactive registry has no owner either.
check_ownership_if_active(reg, domain) ==
    IF ~reg.is_active \/ reg.domain # domain THEN RegistryAccessDenied ELSE "ok"

\* lines 119-121
check_ownership(reg, domain) ==
    IF reg.domain # domain THEN RegistryAccessDenied ELSE "ok"

\* The slugs a caller filters by.
SlugChoices == {NoSlug, [words |-> <<"reg">>, n |-> 1]}

Repeat(x, n) == [i \in 1..n |-> x]

\* Mutant of JoinedRows: the domain and the status are filtered in two
\* filter() calls, so that two different invitations may satisfy them.
JoinedRowsSeparateFilters(invs, grs, rid, domain, has_grants) ==
    LET of_domain == {i \in 1..Len(invs) :
                         invs[i].registry = rid /\ invs[i].domain = domain}
        accepted == {i \in 1..Len(invs) :
                        invs[i].registry = rid /\ invs[i].status = STATUS_ACCEPTED}
        granted == {g \in 1..Len(grs) :
                       grs[g].registry = rid /\ domain \in Range(grs[g].to_domains)}
    IN  Cardinality(of_domain) * Cardinality(accepted)
            * (IF has_grants THEN Cardinality(granted) ELSE 1)

\* lines 36-45: the rows of the join for one registry.  One filter() names
\* both invitation columns, so one invitation row has to match both; with
\* has_grants every grant row that names the domain joins once more.
JoinedRows(invs, grs, rid, domain, has_grants) ==
    LET invited == {i \in 1..Len(invs) :
                       /\ invs[i].registry = rid
                       /\ invs[i].domain = domain
                       /\ invs[i].status = STATUS_ACCEPTED}
        granted == {g \in 1..Len(grs) :
                       grs[g].registry = rid /\ domain \in Range(grs[g].to_domains)}
    IN  Cardinality(invited) * (IF has_grants THEN Cardinality(granted) ELSE 1)

RECURSIVE AccessibleFrom(_, _, _, _, _, _, _)
AccessibleFrom(regs, invs, grs, domain, slug, has_grants, rid) ==
    IF rid > Len(regs) THEN <<>>
    ELSE (IF regs[rid].is_active /\ (slug = NoSlug \/ regs[rid].slug = slug)
          THEN Repeat(rid, JoinedRows(invs, grs, rid, domain, has_grants))
          ELSE <<>>)
         \o AccessibleFrom(regs, invs, grs, domain, slug, has_grants, rid + 1)

\* lines 29-46: the registries of the queryset, one entry per joined row,
\* in the order of their ids.
accessible_to_domain(regs, invs, grs, domain, slug, has_grants) ==
    AccessibleFrom(regs, invs, grs, domain, slug, has_grants, 1)

CallCheckAccess(rid, domain) ==
    /\ Idle
    /\ rid \in DOMAIN registries
    /\ last' = Outcome("check_access", rid, 0, domain, <<>>, NoObject,
                       check_access(registries[rid], invitations, rid, domain),
                       NoValue, FALSE)
    /\ UNCHANGED <<registries, invitations, grants, audit_logs, tx>>
    /\ UNCHANGED <<sessions, cases, traversal, copies, event_vars>>

\* line 97: get_granted_domains runs outside any transaction, and its first
\* query is that of check_access.  A denied call ends here; a call that
\* passed goes on to read the grants, after whatever other requests commit
\* in between.
CallGetGrantedDomains(p, rid, domain) ==
    /\ Idle
    /\ sessions[p].pc = "idle"
    /\ rid \in DOMAIN registries
    /\ IF check_access(registries[rid], invitations, rid, domain) # "ok"
       THEN /\ last' = Outcome("get_granted_domains", rid, 0, domain, <<>>, NoObject,
                               RegistryAccessDenied, NoValue, FALSE)
            /\ UNCHANGED sessions
       ELSE /\ sessions' = [sessions EXCEPT ![p] =
                    Session("get_granted_domains", "checked", "", rid, domain, <<>>,
                            NoSlug, "running")]
            /\ UNCHANGED last
    /\ UNCHANGED <<registries, invitations, grants, audit_logs, tx>>
    /\ UNCHANGED <<cases, traversal, copies, event_vars>>

\* lines 98-101: the second query, of the grants as they are now
ReadGrantedDomains(p) ==
    /\ sessions[p].op = "get_granted_domains" /\ sessions[p].pc = "checked"
    /\ last' = Outcome("get_granted_domains", sessions[p].rid, 0, sessions[p].domain,
                       <<>>, NoObject, "ok",
                       GrantedFrom(grants, sessions[p].rid, sessions[p].domain), FALSE)
    /\ sessions' = [sessions EXCEPT ![p] = NoSession]
    /\ UNCHANGED <<registries, invitations, grants, audit_logs, tx>>
    /\ UNCHANGED <<cases, traversal, copies, event_vars>>

CallGetParticipatingDomains(rid) ==
    /\ Idle
    /\ rid \in DOMAIN registries
    /\ last' = Outcome("get_participating_domains", rid, 0, "", <<>>, NoObject, "ok",
                       get_participating_domains(registries[rid], invitations, rid),
                       FALSE)
    /\ UNCHANGED <<registries, invitations, grants, audit_logs, tx>>
    /\ UNCHANGED <<sessions, cases, traversal, copies, event_vars>>

\* DataRegistry.objects.accessible_to_domain(domain, slug, has_grants),
\* evaluated: last.value holds the registries of the queryset.
CallAccessibleToDomain(domain, slug, has_grants) ==
    /\ Idle
    /\ last' = Outcome("accessible_to_domain", 0, 0, domain, <<>>,
                       [slug |-> slug, has_grants |-> has_grants], "ok",
                       Range(accessible_to_domain(registries, invitations, grants,
                                                  domain, slug, has_grants)),
                       FALSE)
    /\ UNCHANGED <<registries, invitations, grants, audit_logs, tx>>
    /\ UNCHANGED <<sessions, cases, traversal, copies, event_vars>>

CallCheckOwnership(rid, domain) ==
    /\ Idle
    /\ rid \in DOMAIN registries
    /\ last' = Outcome("check_ownership", rid, 0, domain, <<>>, NoObject,
                       check_ownership(registries[rid], domain), NoValue, FALSE)
    /\ UNCHANGED <<registries, invitations, grants, audit_logs, tx>>
    /\ UNCHANGED <<sessions, cases, traversal, copies, event_vars>>

\* An exception inside transaction.atomic (a failed write, an aborted
\* request): the block's writes are rolled back.
Rollback ==
    /\ ~Idle
    /\ tx' = NoTx
    /\ last' = Outcome(tx.op, tx.rid, tx.inv, tx.domain, tx.name, NoObject,
                       "DatabaseError", NoValue, FALSE)
    /\ UNCHANGED <<registries, invitations, grants, audit_logs>>
    /\ UNCHANGED <<sessions, cases, traversal, copies, event_vars>>

\* ------------------------------ RegistryAuditHelper called by the views
\* lines 274-286
schema_changed(rid, user, new, old) ==
    /\ Idle
    /\ rid \in DOMAIN registries
    /\ MayWrite
    /\ audit_logs' = AuditCreate(audit_logs,
            AuditRow(rid, user, ACTION_SCHEMA_CHANGED, registries[rid].domain, rid,
                     RELATED_OBJECT_REGISTRY, <<"new_schema", new, "old_schema", old>>))
    /\ last' = Outcome("schema_changed", rid, 0, registries[rid].domain, <<>>, NoObject,
                       "ok", NoValue, TRUE)
    /\ UNCHANGED <<registries, invitations, grants, tx>>
    /\ UNCHANGED <<sessions, cases, traversal, copies, event_vars>>

\* Mutant of RelatedObjectType: the final else logs the object as an
\* application instead of raising.
RelatedObjectTypeLenient(related_object) ==
    IF ~related_object.truthy \/ ~related_object.has_doc_type THEN "ValueError"
    ELSE IF related_object.doc_type = "ReportConfiguration" THEN RELATED_OBJECT_UCR
    ELSE RELATED_OBJECT_APPLICATION

\* lines 289-299: the related object's audit type, or the ValueError raised
\* for a missing object, one with no doc_type, or another doc_type.
RelatedObjectType(related_object) ==
    IF ~related_object.truthy \/ ~related_object.has_doc_type THEN "ValueError"
    ELSE IF related_object.doc_type = "ReportConfiguration" THEN RELATED_OBJECT_UCR
    ELSE IF related_object.doc_type = "Application" THEN RELATED_OBJECT_APPLICATION
    ELSE "ValueError"

\* lines 288-309, with filters=None
data_accessed(rid, user, domain, related_object) ==
    /\ Idle
    /\ rid \in DOMAIN registries
    /\ LET related_object_type == RelatedObjectType(related_object)
       IN  IF related_object_type = "ValueError"
           THEN /\ UNCHANGED audit_logs
                /\ last' = Outcome("data_accessed", rid, 0, domain, <<>>, related_object,
                                   "ValueError", NoValue, FALSE)
           ELSE /\ MayWrite
                /\ audit_logs' = AuditCreate(audit_logs,
                        AuditRow(rid, user, ACTION_DATA_ACCESSED, domain,
                                 related_object.get_id, related_object_type, DetailNull))
                /\ last' = Outcome("data_accessed", rid, 0, domain, <<>>, related_object,
                                   "ok", NoValue, TRUE)
    /\ UNCHANGED <<registries, invitations, grants, tx>>
    /\ UNCHANGED <<sessions, cases, traversal, copies, event_vars>>

\* lines 262-263
invitation_added(inv, user) ==
    /\ Idle
    /\ inv \in DOMAIN invitations
    /\ MayWrite
    /\ audit_logs' = AuditCreate(audit_logs,
            _log_invitation_added_removed(invitations[inv].registry, user,
                                          invitations, inv, TRUE))
    /\ last' = Outcome("invitation_added", invitations[inv].registry, inv,
                       invitations[inv].domain, <<>>, NoObject, "ok", NoValue, TRUE)
    /\ UNCHANGED <<registries, invitations, grants, tx>>
    /\ UNCHANGED <<sessions, cases, traversal, copies, event_vars>>

\* lines 265-266
invitation_removed(inv, user) ==
    /\ Idle
    /\ inv \in DOMAIN invitations
    /\ MayWrite
    /\ audit_logs' = AuditCreate(audit_logs,
            _log_invitation_added_removed(invitations[inv].registry, user,
                                          invitations, inv, FALSE))
    /\ last' = Outcome("invitation_removed", invitations[inv].registry, inv,
                       invitations[inv].domain, <<>>, NoObject, "ok", NoValue, TRUE)
    /\ UNCHANGED <<registries, invitations, grants, tx>>
    /\ UNCHANGED <<sessions, cases, traversal, copies, event_vars>>

\* lines 350-359: the rows the call writes.  domain=grant.domain reads an
\* attribute a RegistryGrant does not have (its columns are registry,
\* from_domain and to_domains), which raises AttributeError before the row
\* is built.
_log_grant_added_removed(rid, user, grs, g, is_added) ==
    IF "domain" \notin DOMAIN grs[g]
    THEN [result |-> "AttributeError", rows |-> <<>>]
    ELSE [result |-> "ok",
          rows |-> <<AuditRow(rid, user,
                              IF is_added THEN ACTION_GRANT_ADDED
                              ELSE ACTION_GRANT_REMOVED,
                              grs[g].domain, g, RELATED_OBJECT_GRANT,
                              <<"to_domains">> \o grs[g].to_domains)>>]

\* lines 268-269
grant_added(g, user) ==
    /\ Idle
    /\ g \in DOMAIN grants
    /\ LET r == _log_grant_added_removed(grants[g].registry, user, grants, g, TRUE)
       IN  /\ r.rows # <<>> => MayWrite
           /\ audit_logs' = IF r.rows = <<>> THEN audit_logs
                            ELSE AuditCreate(audit_logs, r.rows[1])
           /\ last' = Outcome("grant_added", grants[g].registry, 0,
                              grants[g].from_domain, <<>>, NoObject, r.result, NoValue,
                              r.rows # <<>>)
    /\ UNCHANGED <<registries, invitations, grants, tx>>
    /\ UNCHANGED <<sessions, cases, traversal, copies, event_vars>>

\* lines 271-272
grant_removed(g, user) ==
    /\ Idle
    /\ g \in DOMAIN grants
    /\ LET r == _log_grant_added_removed(grants[g].registry, user, grants, g, FALSE)
       IN  /\ r.rows # <<>> => MayWrite
           /\ audit_logs' = IF r.rows = <<>> THEN audit_logs
                            ELSE AuditCreate(audit_logs, r.rows[1])
           /\ last' = Outcome("grant_removed", grants[g].registry, 0,
                              grants[g].from_domain, <<>>, NoObject, r.result, NoValue,
                              r.rows # <<>>)
    /\ UNCHANGED <<registries, invitations, grants, tx>>
    /\ UNCHANGED <<sessions, cases, traversal, copies, event_vars>>

\* ------------------------------------------------- concurrent creations
\* Requests on separate connections (read committed).  A request sees the
\* committed rows and its own; a row it inserts is pending until its
\* transaction commits.  An insert whose unique key is held by a committed
\* row fails with IntegrityError; one whose key is held by another
\* transaction's pending row waits until that transaction ends.  Row ids are
\* positions in the committed tables, given out at commit.

\* Mutant of RegistryUniqueViolation: no unique_together on DataRegistry.
NoUniqueTogether(regs, row) == FALSE

\* lines 68-69: unique_together = ('domain', 'slug')
RegistryUniqueViolation(regs, row) ==
    \E i \in 1..Len(regs) : regs[i].domain = row.domain /\ regs[i].slug = row.slug

SessionRegistryRow(s) ==
    [domain |-> s.domain, name |-> s.name, slug |-> s.slug, is_active |-> TRUE]

\* The rows a request has inserted and not committed.
PendingRegistries(s) ==
    IF s.op = "create" /\ s.pc \in {"registry_inserted", "invitation_inserted"}
    THEN <<SessionRegistryRow(s)>> ELSE <<>>

PendingInvitations(s) ==
    IF s.op = "invitation_create" /\ s.pc = "inserted"
    THEN <<InvitationRow(s.rid, s.domain, STATUS_PENDING)>> ELSE <<>>

InFlight == Cardinality({p \in Procs : sessions[p].pc # "idle"})

MayBegin == StoreCalls + InFlight < MaxCalls

\* line 74, first half: the slug field populates the slug from the name,
\* querying the registries the request can see.
BeginCreate(p, user, domain, name) ==
    /\ sessions[p].pc = "idle"
    /\ MayBegin
    /\ sessions' = [sessions EXCEPT ![p] =
           Session("create", "slug_chosen", user, 0, domain, name,
                   AutoSlug(registries, domain, name), "running")]
    /\ UNCHANGED <<registries, invitations, grants, audit_logs, tx, last>>
    /\ UNCHANGED <<cases, traversal, copies, event_vars>>

\* line 74, second half: the INSERT of the registry row.
InsertRegistry(p) ==
    /\ sessions[p].op = "create" /\ sessions[p].pc = "slug_chosen"
    /\ LET row == SessionRegistryRow(sessions[p])
       IN  IF RegistryUniqueViolation(registries, row)
           THEN sessions' = [sessions EXCEPT ![p].pc = "idle",
                                             ![p].result = "IntegrityError"]
           ELSE /\ \A q \in Procs \ {p} :
                       ~RegistryUniqueViolation(PendingRegistries(sessions[q]), row)
                /\ sessions' = [sessions EXCEPT ![p].pc = "registry_inserted"]
    /\ UNCHANGED <<registries, invitations, grants, audit_logs, tx, last>>
    /\ UNCHANGED <<cases, traversal, copies, event_vars>>

\* lines 76-78: the owner's invitation, of a registry no other request sees.
InsertOwnerInvitation(p) ==
    /\ sessions[p].op = "create" /\ sessions[p].pc = "registry_inserted"
    /\ sessions' = [sessions EXCEPT ![p].pc = "invitation_inserted"]
    /\ UNCHANGED <<registries, invitations, grants, audit_logs, tx, last>>
    /\ UNCHANGED <<cases, traversal, copies, event_vars>>

\* line 79 and the end of the atomic block.
CommitCreate(p) ==
    /\ sessions[p].op = "create" /\ sessions[p].pc = "invitation_inserted"
    /\ LET rid == Len(registries) + 1
           inv == Len(invitations) + 1
       IN  /\ registries' = Append(registries, SessionRegistryRow(sessions[p]))
           /\ invitations' = Append(invitations,
                   InvitationRow(rid, sessions[p].domain, OwnerInvitationStatus))
           /\ audit_logs' = AuditCreate(audit_logs,
                   _log_invitation_added_removed(rid, sessions[p].user, invitations',
                                                 inv, TRUE))
           /\ sessions' = [sessions EXCEPT ![p].pc = "idle", ![p].rid = rid,
                                           ![p].result = "ok"]
    /\ UNCHANGED <<grants, tx, last>>
    /\ UNCHANGED <<cases, traversal, copies, event_vars>>

\* registry.invitations.create(domain=domain) by a concurrent request: the
\* INSERT under unique_together (registry, domain), lines 149-150.
BeginInvitationCreate(p, rid, domain) ==
    /\ sessions[p].pc = "idle"
    /\ rid \in DOMAIN registries
    /\ IF InvitationExists(invitations, rid, domain)
       THEN sessions' = [sessions EXCEPT ![p] =
                Session("invitation_create", "idle", "", rid, domain, <<>>, NoSlug,
                        "IntegrityError")]
       ELSE /\ MayBegin
            /\ \A q \in Procs \ {p} :
                   ~InvitationExists(PendingInvitations(sessions[q]), rid, domain)
            /\ sessions' = [sessions EXCEPT ![p] =
                   Session("invitation_create", "inserted", "", rid, domain, <<>>,
                           NoSlug, "running")]
    /\ UNCHANGED <<registries, invitations, grants, audit_logs, tx, last>>
    /\ UNCHANGED <<cases, traversal, copies, event_vars>>

CommitInvitation(p) ==
    /\ sessions[p].op = "invitation_create" /\ sessions[p].pc = "inserted"
    /\ invitations' = Append(invitations,
           InvitationRow(sessions[p].rid, sessions[p].domain, STATUS_PENDING))
    /\ sessions' = [sessions EXCEPT ![p].pc = "idle", ![p].result = "ok"]
    /\ UNCHANGED <<registries, grants, audit_logs, tx, last>>
    /\ UNCHANGED <<cases, traversal, copies, event_vars>>

\* The request fails or is cut off before its commit: its pending rows are
\* rolled back.
SessionRollback(p) ==
    /\ sessions[p].pc # "idle"
    /\ sessions' = [sessions EXCEPT ![p].pc = "idle", ![p].result = "DatabaseError"]
    /\ UNCHANGED <<registries, invitations, grants, audit_logs, tx, last>>
    /\ UNCHANGED <<cases, traversal, copies, event_vars>>

\* ------------------------------------------- concurrent activate/deactivate
\* A request loads the registry, which gives it an object of its own, and
\* calls activate or deactivate on it.  The test of is_active reads the
\* object; save() writes the object's fields to the row, under the row's
\* lock, which the transaction holds until it commits.

\* The requests that have saved and not yet committed.
CopiesInFlight == Cardinality({p \in Procs : copies[p].pc = "saved"})

MaySave == StoreCalls + CopiesInFlight < MaxCalls

\* The row is locked by another request's uncommitted save.
RowLocked(p, rid) ==
    \E q \in Procs \ {p} : copies[q].pc = "saved" /\ copies[q].rid = rid

\* The view loads the registry: DataRegistry.objects.get(...).
LoadRegistry(p, rid) ==
    /\ copies[p].pc # "saved"
    /\ rid \in DOMAIN registries
    /\ copies' = [copies EXCEPT ![p] = Copy("load", "loaded", "", rid, registries[rid])]
    /\ UNCHANGED <<registries, invitations, grants, audit_logs, tx, last>>
    /\ UNCHANGED <<sessions, cases, traversal, event_vars>>

\* lines 84, 91: self.is_active is the attribute of the loaded object.
TestedRegistry(copy) == copy.registry

\* lines 82-86 on a loaded object: test, assignment and save().
CopyActivate(p, user) ==
    /\ copies[p].pc = "loaded"
    /\ IF ActivateNeeded(TestedRegistry(copies[p]))
       THEN /\ MaySave
            /\ ~RowLocked(p, copies[p].rid)
            /\ copies' = [copies EXCEPT ![p] =
                   Copy("activate", "saved", user, copies[p].rid,
                        [copies[p].registry EXCEPT !.is_active = TRUE])]
       ELSE copies' = [copies EXCEPT ![p].op = "activate", ![p].user = user]
    /\ UNCHANGED <<registries, invitations, grants, audit_logs, tx, last>>
    /\ UNCHANGED <<sessions, cases, traversal, event_vars>>

\* lines 89-93 on a loaded object.
CopyDeactivate(p, user) ==
    /\ copies[p].pc = "loaded"
    /\ IF DeactivateNeeded(TestedRegistry(copies[p]))
       THEN /\ MaySave
            /\ ~RowLocked(p, copies[p].rid)
            /\ copies' = [copies EXCEPT ![p] =
                   Copy("deactivate", "saved", user, copies[p].rid,
                        [copies[p].registry EXCEPT !.is_active = FALSE])]
       ELSE copies' = [copies EXCEPT ![p].op = "deactivate", ![p].user = user]
    /\ UNCHANGED <<registries, invitations, grants, audit_logs, tx, last>>
    /\ UNCHANGED <<sessions, cases, traversal, event_vars>>

\* lines 87, 94 and the end of the atomic block: the audit row is written
\* and the transaction commits the saved row with it.
CopyLogAndCommit(p) ==
    /\ copies[p].pc = "saved"
    /\ registries' = [registries EXCEPT ![copies[p].rid] = copies[p].registry]
    /\ audit_logs' = AuditCreate(audit_logs,
           _log_registry_activated_deactivated(copies[p].rid, copies[p].user,
               registries', copies[p].op = "activate"))
    /\ copies' = [copies EXCEPT ![p].pc = "loaded"]
    /\ UNCHANGED <<invitations, grants, tx, last>>
    /\ UNCHANGED <<sessions, cases, traversal, event_vars>>

\* ------------------------------------------------------ case hierarchy
\* corehq/apps/reports/view_helpers.py.  cases is the case database: a
\* function from the ids of the records that exist to the case objects a
\* lookup returns.  A case object is a record; an attribute the object does
\* not have (hasattr is false) holds Unset.
Unset == "unset"

\* The index_info of an object that has none.
NoIndexInfo == [unset |-> TRUE]

\* Timestamps are years: datetime.min is year 1, datetime.max year 9999, and
\* NoDate stands for None.
NoDate == 0
DatetimeMin == 1
DatetimeMax == 9999
Times == (DatetimeMin + 1)..(DatetimeMin + MaxTime)

\* A case index: on a reverse index referenced_id and case_id are the id of
\* the child case that holds the index; on a live index referenced_id is the
\* id of the parent.
Index(identifier, relationship, referenced_id, case_id) ==
    [identifier |-> identifier, relationship |-> relationship,
     referenced_id |-> referenced_id, case_id |-> case_id]

ReverseIndex(child_id) ==
    Index(IF child_id = "b" THEN "host" ELSE "parent",
          IF child_id = "b" THEN "extension" ELSE "child", child_id, child_id)

LiveIndex(case_id, parent_id) == Index("parent", "child", parent_id, case_id)

Case(case_id, closed, opened_on, closed_on, children, parents, treetable_parent_node_id) ==
    [case_id |-> case_id, closed |-> closed, opened_on |-> opened_on,
     closed_on |-> closed_on,
     reverse_indices |-> [k \in 1..Len(children) |-> ReverseIndex(children[k])],
     live_indices |-> [k \in 1..Len(parents) |-> LiveIndex(case_id, parents[k])],
     treetable_parent_node_id |-> treetable_parent_node_id,
     index_info |-> NoIndexInfo]

\* The placeholder of an ancestor that could not be resolved (None).
NoneCase == [case_id |-> "None"]

ResourceNotFound == "ResourceNotFound"

\* index.referenced_case: the lookup of the referenced record, which raises
\* when the record does not exist.
referenced_case(db, referenced_id) ==
    IF referenced_id \in DOMAIN db
    THEN [result |-> "ok", case |-> db[referenced_id]]
    ELSE [result |-> ResourceNotFound, case |-> NoneCase]

\* Mutant of _sortkey: the flags of open and closed cases exchanged.
_sortkey_closed_first(child) ==
    LET case == child.case
    IN  IF case.closed THEN <<0, DatetimeMax - case.closed_on>>
        ELSE <<1, IF case.opened_on = NoDate THEN DatetimeMin ELSE case.opened_on>>

\* Mutant of ClosedSortValue: closed cases in the order they were closed.
ClosedSortValueAscending(case) == case.closed_on

\* line 73: datetime.datetime.max - case.closed_on
ClosedSortValue(case) == DatetimeMax - case.closed_on

\* lines 69-74
_sortkey(child) ==
    LET case == child.case
    IN  IF case.closed THEN <<1, ClosedSortValue(case)>>
        ELSE <<0, IF case.opened_on = NoDate THEN DatetimeMin ELSE case.opened_on>>

\* Comparison of two keys, as Python compares tuples.
KeyLess(k1, k2) == k1[1] < k2[1] \/ (k1[1] = k2[1] /\ k1[2] < k2[2])

\* line 84: sorted(children, key=_sortkey), a stable sort.
RECURSIVE sorted(_)
sorted(children) ==
    IF children = <<>> THEN <<>>
    ELSE LET n == Len(children)
             front == sorted(SubSeq(children, 1, n - 1))
             x == children[n]
             keep == Cardinality({j \in 1..Len(front) :
                         ~KeyLess(_sortkey(x), _sortkey(front[j]))})
         IN  SubSeq(front, 1, keep) \o <<x>> \o SubSeq(front, keep + 1, Len(front))

\* Mutant of SeenAfterChild: each child is given a copy of the set.
SeenCopied(seen, child_seen) == seen

\* lines 78-83: seen is one set, shared by the whole recursion: what a
\* child's traversal added to it is there when the next index is tested.
SeenAfterChild(seen, child_seen) == child_seen

\* Mutant of OnMissingChild: the broken branch is left out and the
\* traversal goes on.
SkipMissingChild(visit) == visit

\* line 81: i.referenced_case raises inside the list comprehension, and
\* nothing in get_children or get_case_hierarchy catches it.
OnMissingChild(visit) == [visit EXCEPT !.result = ResourceNotFound]

\* Mutant of SetParent: the pointer is assigned whether or not the child has
\* one.
SetParentAlways(child, case_id) ==
    [child EXCEPT !.case.treetable_parent_node_id = case_id,
                  !.case_list[1].treetable_parent_node_id = case_id]

\* lines 87-89: the child's object is the first of its own case_list.
SetParent(child, case_id) ==
    LET pointer == IF child.case.treetable_parent_node_id = Unset
                   THEN case_id ELSE child.case.treetable_parent_node_id
    IN  [child EXCEPT !.case.treetable_parent_node_id = pointer,
                      !.case_list[1].treetable_parent_node_id = pointer]

\* Mutant of Extend: the children themselves first, their own descendants
\* after them.
RECURSIVE ExtendRootsFirst(_)
ExtendRootsFirst(children) ==
    IF children = <<>> THEN <<>>
    ELSE <<children[1].case_list[1]>> \o ExtendRootsFirst(Tail(children))
             \o Tail(children[1].case_list)

\* lines 91-93
RECURSIVE Extend(_)
Extend(children) ==
    IF children = <<>> THEN <<>>
    ELSE children[1].case_list \o Extend(Tail(children))

RECURSIVE get_children(_, _, _)
RECURSIVE VisitReverseIndices(_, _, _, _)

\* lines 80-83: the list comprehension, index by index from the k-th on.
\* visit holds the children collected so far, the seen set, and the case
\* objects the finished calls have assigned attributes to.
VisitReverseIndices(db, indices, k, visit) ==
    IF k > Len(indices) \/ visit.result # "ok" THEN visit
    ELSE LET i == indices[k]
         IN  IF i.referenced_id # "" /\ i.referenced_id \notin visit.seen
             THEN LET found == referenced_case(db, i.referenced_id)
                  IN  IF found.result # "ok"
                      THEN VisitReverseIndices(db, indices, k + 1, OnMissingChild(visit))
                      ELSE LET child == get_children(db, found.case, visit.seen)
                           IN  IF child.result # "ok"
                               THEN [visit EXCEPT !.result = child.result,
                                                  !.written = @ \o child.written]
                               ELSE VisitReverseIndices(db, indices, k + 1,
                                        [result |-> "ok",
                                         children |-> Append(visit.children, child),
                                         seen |-> SeenAfterChild(visit.seen, child.seen),
                                         written |-> visit.written \o child.written])
             ELSE VisitReverseIndices(db, indices, k + 1, visit)

\* lines 78-98.  written is the case objects the call has assigned
\* treetable_parent_node_id to, as they are when it returns or raises.
get_children(db, case, seen) ==
    LET visit == VisitReverseIndices(db, case.reverse_indices, 1,
                     [result |-> "ok", children |-> <<>>,
                      seen |-> seen \cup {case.case_id}, written |-> <<>>])
    IN  IF visit.result # "ok"
        THEN [result |-> visit.result, case |-> case, case_list |-> <<>>,
              seen |-> visit.seen, written |-> visit.written]
        ELSE LET children == sorted(visit.children)
                 annotated == [k \in 1..Len(children) |->
                                  SetParent(children[k], case.case_id)]
             IN  [result |-> "ok", case |-> case,
                  case_list |-> <<case>> \o Extend(annotated),
                  seen |-> visit.seen, written |-> Extend(annotated)]

\* lines 77-100
get_case_hierarchy(db, case) ==
    LET top == get_children(db, case, {})
    IN  [result |-> top.result, case_list |-> top.case_list,
         written |-> top.written]

\* Mutant of _index_to_context: every index is described as an ancestor's.
_index_to_context_as_ancestor(index, is_ancestor) ==
    [identifier |-> index.identifier, relationship |-> index.relationship,
     is_ancestor |-> TRUE]

\* lines 61-66
_index_to_context(index, is_ancestor) ==
    [identifier |-> index.identifier, relationship |-> index.relationship,
     is_ancestor |-> is_ancestor]

\* Mutant of AncestorNotFound: the unresolved ancestor is left out.
AncestorLeftOut(resolved) == [resolved EXCEPT !.last_parent_id = ""]

\* Mutant of AncestorNotFound: no except clause, the lookup failure leaves
\* the call.
AncestorNotCaught(resolved) == [resolved EXCEPT !.result = ResourceNotFound]

\* lines 26-28: except ResourceNotFound
AncestorNotFound(resolved) ==
    [resolved EXCEPT !.parent_cases = Append(@, NoneCase), !.last_parent_id = ""]

\* lines 23-32: the loop over case.live_indices, from the k-th index on.
RECURSIVE ResolveParents(_, _, _, _)
ResolveParents(db, indices, k, resolved) ==
    IF k > Len(indices) \/ resolved.result # "ok" THEN resolved
    ELSE LET idx == indices[k]
             found == referenced_case(db, idx.referenced_id)
         IN  IF found.result # "ok"
             THEN ResolveParents(db, indices, k + 1, AncestorNotFound(resolved))
             ELSE ResolveParents(db, indices, k + 1,
                      [result |-> "ok",
                       parent_cases |-> Append(resolved.parent_cases,
                           [found.case EXCEPT
                               !.index_info = _index_to_context(idx, TRUE)]),
                       last_parent_id |-> found.case.case_id])

\* lines 34-36
SetLastParent(c, last_parent_id) ==
    IF c.treetable_parent_node_id \in {Unset, ""} /\ last_parent_id # ""
    THEN [c EXCEPT !.treetable_parent_node_id = last_parent_id] ELSE c

\* lines 38-41: the dictionary keeps, for a case id, the last reverse index
\* of the root that has it.
SetIndexInfo(descendant, reverse_indices) ==
    LET matching == {k \in 1..Len(reverse_indices) :
                        reverse_indices[k].case_id = descendant.case_id}
    IN  IF matching = {} THEN descendant
        ELSE LET last_k == CHOOSE k \in matching : \A j \in matching : j <= k
             IN  [descendant EXCEPT
                     !.index_info = _index_to_context(reverse_indices[last_k], FALSE)]

\* lines 11-58, without the display columns
case_hierarchy_context(db, case) ==
    LET descendant_case_list == get_case_hierarchy(db, case)
    IN  IF descendant_case_list.result # "ok"
        THEN [result |-> descendant_case_list.result, case_list |-> <<>>,
              written |-> descendant_case_list.written]
        ELSE LET resolved == ResolveParents(db, case.live_indices, 1,
                                 [result |-> "ok", parent_cases |-> <<>>,
                                  last_parent_id |-> ""])
                 pointed == [k \in 1..Len(descendant_case_list.case_list) |->
                                SetLastParent(descendant_case_list.case_list[k],
                                              resolved.last_parent_id)]
                 described == [k \in 1..Len(pointed) |->
                                  SetIndexInfo(pointed[k], case.reverse_indices)]
                 parents == SelectSeq(resolved.parent_cases,
                                      LAMBDA c : c # NoneCase)
             IN  IF resolved.result # "ok"
                 THEN [result |-> resolved.result, case_list |-> <<>>,
                       written |-> descendant_case_list.written \o parents]
                 ELSE [result |-> "ok",
                       case_list |-> resolved.parent_cases \o described,
                       written |-> parents \o described]

\* ------------------------------------------------- the case databases
\* The reverse indices of the root r, of its children a and b and of c, as
\* the ids of the cases that hold them.  m is the id of a record that does
\* not exist; "" is an index with no referenced id.
RootChildren ==
    {<<"a", "b">>, <<"b", "a", "c">>, <<"a", "m", "b">>, <<"a", "a", "b">>,
     <<"", "a">>}
AChildren == {<<>>, <<"c">>, <<"r">>, <<"m">>}
BChildren == {<<>>, <<"c">>, <<"a">>}
CChildren == {<<>>, <<"a">>}
\* The live indices of the root, as the ids of the parents.
RootParents == {<<>>, <<"p">>, <<"m">>, <<"p", "m">>}

\* Open with or without opened_on, or closed at some time.
CaseStates ==
    {[closed |-> FALSE, opened_on |-> o, closed_on |-> NoDate] :
        o \in {NoDate} \cup Times}
    \cup {[closed |-> TRUE, opened_on |-> DatetimeMin + 1, closed_on |-> t] :
              t \in Times}

FewCaseStates ==
    {[closed |-> FALSE, opened_on |-> NoDate, closed_on |-> NoDate],
     [closed |-> TRUE, opened_on |-> DatetimeMin + 1, closed_on |-> DatetimeMin + 1]}

\* What treetable_parent_node_id of c holds before the traversal: no
\* attribute, an id, or an attribute that holds None ("").
PresetPointers == {Unset, "x", ""}

CaseDb(root_children, a_children, b_children, c_children, root_parents, a_state, b_state, c_state, c_pointer) ==
    [id \in {"r", "a", "b", "c", "p"} |->
        CASE id = "r" -> Case("r", FALSE, NoDate, NoDate, root_children, root_parents,
                              Unset)
          [] id = "a" -> Case("a", a_state.closed, a_state.opened_on, a_state.closed_on,
                              a_children, <<"r">>, Unset)
          [] id = "b" -> Case("b", b_state.closed, b_state.opened_on, b_state.closed_on,
                              b_children, <<"r">>, Unset)
          [] id = "c" -> Case("c", c_state.closed, c_state.opened_on, c_state.closed_on,
                              c_children, <<>>, c_pointer)
          [] OTHER -> Case("p", FALSE, NoDate, NoDate, <<"r">>, <<>>, Unset)]

CaseDbs ==
    {CaseDb(root_children, a_children, b_children, c_children, root_parents,
            a_state, b_state, c_state, c_pointer) :
        root_children \in RootChildren, a_children \in AChildren,
        b_children \in BChildren, c_children \in CChildren,
        root_parents \in RootParents, a_state \in CaseStates,
        b_state \in CaseStates, c_state \in FewCaseStates,
        c_pointer \in PresetPointers}

\* The cases a view is opened on.
Roots == {"r"}

\* The state a case view starts from: some case database, no call made.
InitHierarchy ==
    /\ registries = <<>>
    /\ invitations = <<>>
    /\ grants = <<>>
    /\ audit_logs = <<>>
    /\ tx = NoTx
    /\ last = NoCall
    /\ sessions = [p \in Procs |-> NoSession]
    /\ cases \in CaseDbs
    /\ traversal = NoTraversal
    /\ copies = [p \in Procs |-> NoCopy]
    /\ attendees = <<>>
    /\ locks = {}
    /\ tasks = [p \in Procs |-> NoTask]
    /\ submitted = [domain \in Domains |-> 0]
    /\ runs = 0

\* lines 30, 36, 41, 89: the attributes are assigned on the case objects
\* themselves, which the case database holds: each written object takes the
\* place of the one with its id, the last written last.
Assigned(db, written) ==
    [id \in DOMAIN db |->
        LET at == {k \in DOMAIN written : written[k].case_id = id}
        IN  IF at = {} THEN db[id]
            ELSE written[CHOOSE k \in at : \A j \in at : j <= k]]

\* A view calls get_case_hierarchy on the case of the given id.
CallGetCaseHierarchy(root) ==
    /\ root \in DOMAIN cases
    /\ LET r == get_case_hierarchy(cases, cases[root])
       IN  /\ traversal' = [op |-> "get_case_hierarchy", root |-> root,
                            result |-> r.result, case_list |-> r.case_list]
           /\ cases' = Assigned(cases, r.written)
    /\ UNCHANGED <<registries, invitations, grants, audit_logs, tx, last>>
    /\ UNCHANGED <<sessions, copies, event_vars>>

\* A view calls case_hierarchy_context on the case of the given id.
CallCaseHierarchyContext(root) ==
    /\ root \in DOMAIN cases
    /\ LET r == case_hierarchy_context(cases, cases[root])
       IN  /\ traversal' = [op |-> "case_hierarchy_context", root |-> root,
                            result |-> r.result, case_list |-> r.case_list]
           /\ cases' = Assigned(cases, r.written)
    /\ UNCHANGED <<registries, invitations, grants, audit_logs, tx, last>>
    /\ UNCHANGED <<sessions, copies, event_vars>>

\* --------------------------------------------------------- specifications
\* The registry's own methods: create, activate, deactivate, and the
\* invitation's accept and reject, with the rows the views insert.
Lifecycle(names) ==
    \/ \E user \in Users, domain \in Domains, name \in names :
           CreateRegistry(user, domain, name)
    \/ CreateOwnerInvitation
    \/ CreateLogAndCommit
    \/ \E rid \in DOMAIN registries, user \in Users : activate(rid, user)
    \/ \E rid \in DOMAIN registries, user \in Users : deactivate(rid, user)
    \/ registry_activated
    \/ registry_deactivated
    \/ \E rid \in DOMAIN registries, domain \in Domains : InvitationCreate(rid, domain)
    \/ \E inv \in DOMAIN invitations, user \in Users : accept(inv, user)
    \/ \E inv \in DOMAIN invitations, user \in Users : reject(inv, user)
    \/ invitation_accepted
    \/ invitation_rejected

\* ------------------------------------------- events: the attendee tasks
\* What the tasks leave alone.
registry_vars == <<registries, invitations, grants, audit_logs, tx, last,
                   sessions, cases, traversal, copies>>

\* CommCareUser.by_domain(domain): the mobile workers of the domain, which
\* no task changes.
by_domain(domain) == IF domain = "alpha" THEN <<"w1", "w2">> ELSE <<"w3">>

\* CommCareUser.ids_by_domain(domain)
ids_by_domain(domain) == by_domain(domain)

\* A form: the domain it was submitted to and its number there.
Form(domain, n) == <<domain, n>>

\* An attendee case: its domain, the attendee_user_id case property ("" for
\* an attendee who is no mobile worker) and the forms that closed it.
AttendeeCase(domain, user_id, closed_by) ==
    [domain |-> domain, user_id |-> user_id, closed_by |-> closed_by]

\* CommCareCase.closed
Closed(case) == case.closed_by # {}

\* The forms that hold a closing transaction of some case.
ClosingForms(att) == UNION {att[i].closed_by : i \in DOMAIN att}

\* Forms are counted: no more than MaxForms closing forms are submitted to
\* a domain.
MaxForms == 3

\* The forms submitted to the domain before the tasks start: as many as the
\* newest form that closes a case says.
FormsSubmitted(att, domain) ==
    LET numbers == {form[2] : form \in {f \in ClosingForms(att) : f[1] = domain}}
    IN  IF numbers = {} THEN 0 ELSE CHOOSE n \in numbers : \A m \in numbers : m <= n

\* A form that is submitted is newer than every form submitted before it,
\* archived or not.
NewForm(count, domain) == Form(domain, count[domain] + 1)

\* AttendeeModel: the case and what the model copied of it when it was read.
AttendeeModel(att, case_id) ==
    [case_id |-> case_id, user_id |-> att[case_id].user_id,
     closed |-> Closed(att[case_id])]

\* The attendee cases of the domain, in the order they are read.
ModelsByDomain(att, domain) ==
    SelectSeq([i \in 1..Len(att) |-> i], LAMBDA i : att[i].domain = domain)

\* {m.user_id: m for m in models if m.user_id}: the keys in the order they
\* were first met, each with the last model of its user.
MappingOf(att, models) ==
    LET first == SelectSeq(models, LAMBDA i :
                     /\ att[i].user_id # ""
                     /\ \A j \in Range(models) : att[j].user_id = att[i].user_id => i <= j)
    IN  [k \in 1..Len(first) |->
            AttendeeModel(att, CHOOSE i \in Range(models) :
                /\ att[i].user_id = att[first[k]].user_id
                /\ \A j \in Range(models) :
                       att[j].user_id = att[i].user_id => j <= i)]

\* lines 68-77, over the open and the closed attendee cases of the domain
get_user_attendee_models_on_domain(att, domain) ==
    MappingOf(att, ModelsByDomain(att, domain))

\* user_id in user_id_model_mapping, and user_id_model_mapping[user_id]
HasKey(user_id_model_mapping, user_id) ==
    \E k \in DOMAIN user_id_model_mapping : user_id_model_mapping[k].user_id = user_id

Lookup(user_id_model_mapping, user_id) ==
    user_id_model_mapping[CHOOSE k \in DOMAIN user_id_model_mapping :
                              user_id_model_mapping[k].user_id = user_id]

\* lines 95-117: helper.create_case(...) adds an open case of the user
create_attendee_for_user(att, user_id, domain) ==
    Append(att, AttendeeCase(domain, user_id, {}))

\* transaction.form.archive(): the form's case blocks are undone, in every
\* case the form touched.
Archive(att, form) ==
    [i \in DOMAIN att |-> [att[i] EXCEPT !.closed_by = @ \ {form}]]

\* line 122: case.get_closing_transactions(), read when it is called: the
\* forms that closed the case, the oldest first.
get_closing_transactions(att, case_id) ==
    LET forms == att[case_id].closed_by
    IN  [k \in 1..Cardinality(forms) |->
            CHOOSE form \in forms :
                Cardinality({other \in forms : other[2] < form[2]}) = k - 1]

\* lines 60-65: bulk_update_cases submits one form of the domain with a
\* close block for every case of case_changes.
bulk_update_cases(att, count, domain_name, case_changes) ==
    LET form == NewForm(count, domain_name)
    IN  [i \in DOMAIN att |->
            IF i \in Range(case_changes)
            THEN [att[i] EXCEPT !.closed_by = @ \cup {form}]
            ELSE att[i]]

\* line 23 and line 49: the keys of the two critical sections
SyncKey(domain_name) == <<"sync_mobile_worker_attendees_", domain_name>>

CloseKey(domain_name) == <<"close_mobile_worker_attendees_", domain_name>>

\* The task runs are counted: no more than MaxRuns are started.
MaxRuns == 3

\* with CriticalSection([key]), lines 23 and 49. The class is imported from
\* dimagi.utils.couch and its code is not among the sources: tasks.py fixes
\* the key and the extent of the block, and nothing about what a task meets
\* when its key is held elsewhere. Both outcomes are kept. Either the task
\* acquires the key, which then no other task holds, or it runs the block
\* without the key (the acquire gave up without raising, or a hold ran out
\* while its task was still inside the block).
CriticalSection(held, key, acquired) == acquired => \A h \in held : h[1] # key

Running(task) == task.pc \notin {"idle", "done"}

\* lines 19-24: the task starts and enters its critical section
SyncEnter(p, domain_name) ==
    /\ ~Running(tasks[p])
    /\ runs < MaxRuns
    /\ runs' = runs + 1
    /\ \E acquired \in BOOLEAN :
           /\ CriticalSection(locks, SyncKey(domain_name), acquired)
           /\ locks' = IF acquired THEN locks \cup {<<SyncKey(domain_name), p>>}
                       ELSE locks
    /\ tasks' = [tasks EXCEPT ![p] =
           Task("sync", "entered", domain_name, NoMapping, <<>>, <<>>, <<>>, <<>>)]
    /\ UNCHANGED attendees
    /\ UNCHANGED <<registry_vars, submitted>>

\* lines 25-28: the mapping and the users of the domain are read
SyncReadMapping(p) ==
    /\ tasks[p].op = "sync" /\ tasks[p].pc = "entered"
    /\ tasks' = [tasks EXCEPT ![p] =
           Task("sync", "loop", tasks[p].domain,
                get_user_attendee_models_on_domain(attendees, tasks[p].domain),
                by_domain(tasks[p].domain), <<>>, <<>>, <<>>)]
    /\ UNCHANGED <<attendees, locks>>
    /\ UNCHANGED <<registry_vars, submitted, runs>>

\* lines 28-39: one round of the loop over the users
SyncUser(p) ==
    /\ tasks[p].op = "sync" /\ tasks[p].pc = "loop"
    /\ tasks[p].users # <<>>
    /\ LET user_id == Head(tasks[p].users)
           user_id_model_mapping == tasks[p].user_id_model_mapping
       IN  IF ~HasKey(user_id_model_mapping, user_id)
           THEN /\ attendees' = create_attendee_for_user(attendees, user_id,
                                                         tasks[p].domain)
                /\ tasks' = [tasks EXCEPT ![p].users = Tail(@)]
           ELSE IF Lookup(user_id_model_mapping, user_id).closed
           THEN /\ tasks' = [tasks EXCEPT
                       ![p].users = Tail(@),
                       ![p].closed_cases =
                           Append(@, Lookup(user_id_model_mapping, user_id).case_id)]
                /\ UNCHANGED attendees
           ELSE /\ tasks' = [tasks EXCEPT ![p].users = Tail(@)]
                /\ UNCHANGED attendees
    /\ UNCHANGED locks
    /\ UNCHANGED <<registry_vars, submitted, runs>>

\* lines 41, 121-122: the next case of reopen_cases, and the read of its
\* closing transactions
SyncGetClosingTransactions(p) ==
    /\ tasks[p].op = "sync" /\ tasks[p].pc = "loop"
    /\ tasks[p].users = <<>>
    /\ tasks[p].closed_cases # <<>>
    /\ LET transactions ==
               get_closing_transactions(attendees, Head(tasks[p].closed_cases))
       IN  tasks' = [tasks EXCEPT
               ![p].pc = IF transactions = <<>> THEN "loop" ELSE "archive",
               ![p].closed_cases = Tail(@),
               ![p].transactions = transactions]
    /\ UNCHANGED <<attendees, locks>>
    /\ UNCHANGED <<registry_vars, submitted, runs>>

\* lines 123-124: one transaction.form.archive()
SyncArchive(p) ==
    /\ tasks[p].op = "sync" /\ tasks[p].pc = "archive"
    /\ attendees' = Archive(attendees, Head(tasks[p].transactions))
    /\ tasks' = [tasks EXCEPT
           ![p].pc = IF Tail(tasks[p].transactions) = <<>> THEN "loop" ELSE "archive",
           ![p].transactions = Tail(@)]
    /\ UNCHANGED locks
    /\ UNCHANGED <<registry_vars, submitted, runs>>

\* the end of the with block of line 23: the key is released if the task
\* holds it
SyncExit(p) ==
    /\ tasks[p].op = "sync" /\ tasks[p].pc = "loop"
    /\ tasks[p].users = <<>>
    /\ tasks[p].closed_cases = <<>>
    /\ locks' = locks \ {<<SyncKey(tasks[p].domain), p>>}
    /\ tasks' = [tasks EXCEPT ![p] =
           Task("sync", "done", tasks[p].domain, NoMapping, <<>>, <<>>, <<>>, <<>>)]
    /\ UNCHANGED attendees
    /\ UNCHANGED <<registry_vars, submitted, runs>>

\* The runs of the close task on the domain that have a form to submit yet.
ClosesInFlight(domain) ==
    Cardinality({p \in Procs : /\ tasks[p].op = "close"
                               /\ tasks[p].pc \in {"entered", "changes"}
                               /\ tasks[p].domain = domain})

\* lines 45-49: the task starts and enters its critical section
CloseEnter(p, domain_name) ==
    /\ ~Running(tasks[p])
    /\ runs < MaxRuns
    /\ runs' = runs + 1
    /\ submitted[domain_name] + ClosesInFlight(domain_name) < MaxForms
    /\ \E acquired \in BOOLEAN :
           /\ CriticalSection(locks, CloseKey(domain_name), acquired)
           /\ locks' = IF acquired THEN locks \cup {<<CloseKey(domain_name), p>>}
                       ELSE locks
    /\ tasks' = [tasks EXCEPT ![p] =
           Task("close", "entered", domain_name, NoMapping, <<>>, <<>>, <<>>, <<>>)]
    /\ UNCHANGED attendees
    /\ UNCHANGED <<registry_vars, submitted>>

\* lines 53-57: the cases of the models whose user is a mobile worker of
\* the domain, in the order of the mapping
CaseChanges(user_id_model_mapping, user_ids) ==
    LET changed == SelectSeq(user_id_model_mapping, LAMBDA model : model.user_id \in user_ids)
    IN  [k \in 1..Len(changed) |-> changed[k].case_id]

\* lines 50-57
CloseRead(p) ==
    /\ tasks[p].op = "close" /\ tasks[p].pc = "entered"
    /\ LET user_id_model_mapping ==
               get_user_attendee_models_on_domain(attendees, tasks[p].domain)
           user_ids == Range(ids_by_domain(tasks[p].domain))
       IN  tasks' = [tasks EXCEPT ![p] =
               Task("close", "changes", tasks[p].domain, user_id_model_mapping,
                    <<>>, <<>>, <<>>, CaseChanges(user_id_model_mapping, user_ids))]
    /\ UNCHANGED <<attendees, locks>>
    /\ UNCHANGED <<registry_vars, submitted, runs>>

\* lines 59-65: the form is submitted, with the critical section still held
CloseBulkUpdate(p) ==
    /\ tasks[p].op = "close" /\ tasks[p].pc = "changes"
    /\ attendees' = IF tasks[p].case_changes # <<>>
                    THEN bulk_update_cases(attendees, submitted, tasks[p].domain,
                                           tasks[p].case_changes)
                    ELSE attendees
    /\ submitted' = IF tasks[p].case_changes # <<>>
                    THEN [submitted EXCEPT ![tasks[p].domain] = @ + 1]
                    ELSE submitted
    /\ tasks' = [tasks EXCEPT ![p].pc = "updated"]
    /\ UNCHANGED <<locks, runs>>
    /\ UNCHANGED registry_vars

\* the end of the with block of line 49: the key is released if the task
\* holds it
CloseExit(p) ==
    /\ tasks[p].op = "close" /\ tasks[p].pc = "updated"
    /\ locks' = locks \ {<<CloseKey(tasks[p].domain), p>>}
    /\ tasks' = [tasks EXCEPT ![p] =
           Task("close", "done", tasks[p].domain, NoMapping, <<>>, <<>>, <<>>, <<>>)]
    /\ UNCHANGED attendees
    /\ UNCHANGED <<registry_vars, submitted, runs>>

\* The attendee cases a domain may hold when the tasks start: of each
\* mobile worker none, an open one, one that a bulk update closed or one
\* that two bulk updates closed, and besides them none, an attendee who is
\* no mobile worker, or one whose user has left the domain.
WorkerCaseChoices == {"none", "open", "closed", "closed_again"}

OtherCaseChoices == {"none", "", "w0"}

WorkerCases(domain, choice) ==
    LET users == by_domain(domain)
        cases_of(k) ==
            IF choice[users[k]] = "none" THEN <<>>
            ELSE <<AttendeeCase(domain, users[k],
                                IF choice[users[k]] = "closed"
                                THEN {Form(domain, 1)}
                                ELSE IF choice[users[k]] = "closed_again"
                                THEN {Form(domain, 1), Form(domain, 2)}
                                ELSE {})>>
    IN  IF Len(users) = 2 THEN cases_of(1) \o cases_of(2) ELSE cases_of(1)

AttendeeTables ==
    {(IF other = "none" THEN <<>> ELSE <<AttendeeCase("alpha", other, {})>>)
         \o WorkerCases("alpha", choice) \o WorkerCases("beta", choice) :
     other \in OtherCaseChoices,
     choice \in [{"w1", "w2", "w3"} -> WorkerCaseChoices]}

InitEvents ==
    /\ registries = <<>>
    /\ invitations = <<>>
    /\ grants = <<>>
    /\ audit_logs = <<>>
    /\ tx = NoTx
    /\ last = NoCall
    /\ sessions = [p \in Procs |-> NoSession]
    /\ cases = NoCases
    /\ traversal = NoTraversal
    /\ copies = [p \in Procs |-> NoCopy]
    /\ attendees \in AttendeeTables
    /\ locks = {}
    /\ tasks = [p \in Procs |-> NoTask]
    /\ submitted = [domain \in Domains |-> FormsSubmitted(attendees, domain)]
    /\ runs = 0

Grants ==
    \E rid \in DOMAIN registries, from_domain \in Domains, to_domains \in ToDomainChoices :
        GrantCreate(rid, from_domain, to_domains)

Queries ==
    \/ \E rid \in DOMAIN registries, domain \in Domains : CallCheckAccess(rid, domain)
    \/ \E p \in Procs, rid \in DOMAIN registries, domain \in Domains :
           CallGetGrantedDomains(p, rid, domain)
    \/ \E p \in Procs : ReadGrantedDomains(p)
    \/ \E rid \in DOMAIN registries : CallGetParticipatingDomains(rid)
    \/ \E rid \in DOMAIN registries, domain \in Domains : CallCheckOwnership(rid, domain)
    \/ \E domain \in Domains, slug \in SlugChoices, has_grants \in BOOLEAN :
           CallAccessibleToDomain(domain, slug, has_grants)

AuditCalls ==
    \/ \E rid \in DOMAIN registries, user \in Users, new \in Schemas, old \in Schemas :
           schema_changed(rid, user, new, old)
    \/ \E rid \in DOMAIN registries, user \in Users, domain \in Domains,
          related_object \in RelatedObjects :
           data_accessed(rid, user, domain, related_object)
    \/ \E inv \in DOMAIN invitations, user \in Users : invitation_added(inv, user)
    \/ \E inv \in DOMAIN invitations, user \in Users : invitation_removed(inv, user)
    \/ \E g \in DOMAIN grants, user \in Users : grant_added(g, user)
    \/ \E g \in DOMAIN grants, user \in Users : grant_removed(g, user)

\* Registry lifecycle with transaction aborts.
Next == Lifecycle(Names) \/ Rollback

Spec == Init /\ [][Next]_vars

\* Access control: the lifecycle, the grants and the four queries.  No
\* query reads a registry's name or slug: one name is enough.
NextAccess == Lifecycle(OneName) \/ Grants \/ Queries

SpecAccess == Init /\ [][NextAccess]_vars

\* Audit log: the lifecycle with aborts, the grants and the helper calls.
\* No audit row holds a registry's name or slug: one name is enough.
NextAudit == Lifecycle(OneName) \/ Rollback \/ Grants \/ AuditCalls

SpecAudit == Init /\ [][NextAudit]_vars

\* Concurrent creations of registries and invitations.
NextConcurrent ==
    \/ \E p \in Procs, user \in Users, domain \in Domains, name \in Names :
           BeginCreate(p, user, domain, name)
    \/ \E p \in Procs : InsertRegistry(p)
    \/ \E p \in Procs : InsertOwnerInvitation(p)
    \/ \E p \in Procs : CommitCreate(p)
    \/ \E p \in Procs, rid \in DOMAIN registries, domain \in Domains :
           BeginInvitationCreate(p, rid, domain)
    \/ \E p \in Procs : CommitInvitation(p)
    \/ \E p \in Procs : SessionRollback(p)

SpecConcurrent == Init /\ [][NextConcurrent]_vars

\* Case hierarchy traversals over a case database.
NextHierarchy ==
    \/ \E root \in Roots : CallGetCaseHierarchy(root)
    \/ \E root \in Roots : CallCaseHierarchyContext(root)

SpecHierarchy == InitHierarchy /\ [][NextHierarchy]_vars

\* Concurrent activate and deactivate calls, each on its own loaded object,
\* on registries created one after the other.
NextCopies ==
    \/ \E user \in Users, domain \in Domains, name \in OneName :
           CreateRegistry(user, domain, name)
    \/ CreateOwnerInvitation
    \/ CreateLogAndCommit
    \/ \E p \in Procs, rid \in DOMAIN registries : LoadRegistry(p, rid)
    \/ \E p \in Procs, user \in Users : CopyActivate(p, user)
    \/ \E p \in Procs, user \in Users : CopyDeactivate(p, user)
    \/ \E p \in Procs : CopyLogAndCommit(p)

SpecCopies == Init /\ [][NextCopies]_vars

\* Runs of sync_mobile_worker_attendees, on the attendee cases of two
\* domains.
NextSync ==
    \/ \E p \in Procs, domain_name \in Domains : SyncEnter(p, domain_name)
    \/ \E p \in Procs : SyncReadMapping(p)
    \/ \E p \in Procs : SyncUser(p)
    \/ \E p \in Procs : SyncGetClosingTransactions(p)
    \/ \E p \in Procs : SyncArchive(p)
    \/ \E p \in Procs : SyncExit(p)

\* Runs of both tasks.
NextEvents ==
    \/ NextSync
    \/ \E p \in Procs, domain_name \in Domains : CloseEnter(p, domain_name)
    \/ \E p \in Procs : CloseRead(p)
    \/ \E p \in Procs : CloseBulkUpdate(p)
    \/ \E p \in Procs : CloseExit(p)

SpecEvents == InitEvents /\ [][NextEvents]_vars

\* ------------------------------------------------------------ properties
Store == <<registries, invitations, grants, audit_logs>>

\* This step is the return of a call of op.
Returned(op) == last'.op = op /\ vars' # vars

HasAccepted(rid, domain) ==
    \E i \in DOMAIN invitations :
        /\ invitations[i].registry = rid
        /\ invitations[i].domain = domain
        /\ invitations[i].status = STATUS_ACCEPTED

GrantTargets(rid, domain) ==
    \E g \in DOMAIN grants :
        grants[g].registry = rid /\ domain \in Range(grants[g].to_domains)

\* C1: check_access(D) on registry R succeeds exactly when R is active and an
\* accepted invitation (R, D) exists, and is denied with RegistryAccessDenied
\* otherwise, whatever the grants.
C1_CheckAccessIffActiveAndAccepted ==
    /\ \A rid \in DOMAIN registries, domain \in Domains :
           check_access(registries[rid], invitations, rid, domain)
               = IF registries[rid].is_active /\ HasAccepted(rid, domain)
                 THEN "ok" ELSE RegistryAccessDenied
    /\ last.op = "check_access" =>
           /\ last.result \in {"ok", RegistryAccessDenied}
           /\ last.result = "ok" <=>
                  registries[last.rid].is_active /\ HasAccepted(last.rid, last.domain)

\* C1 witness: access denied on an inactive registry to a domain that holds
\* an accepted invitation and is the target of a grant.
C1_Witness ==
    /\ last.op = "check_access"
    /\ last.result = RegistryAccessDenied
    /\ ~registries[last.rid].is_active
    /\ HasAccepted(last.rid, last.domain)
    /\ GrantTargets(last.rid, last.domain)

\* C2: get_granted_domains(D) is denied by its check_access, with no grant
\* read, when D has no accepted invitation or the registry is inactive, and
\* passes the check otherwise; a call that passed returns exactly the
\* from_domain of the registry's grants whose to_domains holds D when it
\* reads them: one hop, the empty set when no grant targets D.
C2_GrantedDomainsOneHop ==
    [][ /\ \A p \in Procs :
               /\ (/\ sessions[p].pc = "idle"
                   /\ sessions'[p].op = "get_granted_domains"
                   /\ sessions'[p].pc = "checked")
                  => /\ registries[sessions'[p].rid].is_active
                     /\ HasAccepted(sessions'[p].rid, sessions'[p].domain)
                     /\ last' = last
               /\ (/\ sessions[p].op = "get_granted_domains"
                   /\ sessions[p].pc = "checked"
                   /\ sessions'[p].pc = "idle")
                  => /\ last'.op = "get_granted_domains"
                     /\ last'.rid = sessions[p].rid /\ last'.domain = sessions[p].domain
                     /\ last'.result = "ok"
                     /\ last'.value = {d \in Domains : \E g \in DOMAIN grants :
                                           /\ grants[g].registry = last'.rid
                                           /\ grants[g].from_domain = d
                                           /\ last'.domain \in Range(grants[g].to_domains)}
        /\ (sessions' = sessions /\ last' # last /\ last'.op = "get_granted_domains")
               => /\ last'.result = RegistryAccessDenied
                  /\ last'.value = NoValue
                  /\ ~(/\ registries[last'.rid].is_active
                       /\ HasAccepted(last'.rid, last'.domain))
      ]_vars

\* C2 witness: the call returned the one grantor of D although that grantor
\* is itself the target of a grant from D.
C2_Witness ==
    /\ last.op = "get_granted_domains"
    /\ last.result = "ok"
    /\ \E d \in Domains :
           /\ d # last.domain
           /\ last.value = {d}
           /\ \E g \in DOMAIN grants :
                  /\ grants[g].registry = last.rid
                  /\ grants[g].from_domain = last.domain
                  /\ d \in Range(grants[g].to_domains)

\* C3: activate on an active registry and deactivate on an inactive one
\* change nothing in the store; otherwise the call flips is_active and appends
\* exactly one activated (deactivated) audit row for the registry.
C3_ActivateDeactivateIdempotent ==
    [][\A rid \in DOMAIN registries :
        /\ (Returned("activate") /\ last'.rid = rid /\ last'.result = "ok") =>
               IF registries[rid].is_active
               THEN Store' = Store /\ ~last'.changed
               ELSE /\ registries' = [registries EXCEPT ![rid].is_active = TRUE]
                    /\ Len(audit_logs') = Len(audit_logs) + 1
                    /\ IsPrefix(audit_logs, audit_logs')
                    /\ audit_logs'[Len(audit_logs')].action = ACTION_ACTIVATED
                    /\ audit_logs'[Len(audit_logs')].registry = rid
                    /\ UNCHANGED <<invitations, grants>>
        /\ (Returned("deactivate") /\ last'.rid = rid /\ last'.result = "ok") =>
               IF ~registries[rid].is_active
               THEN Store' = Store /\ ~last'.changed
               ELSE /\ registries' = [registries EXCEPT ![rid].is_active = FALSE]
                    /\ Len(audit_logs') = Len(audit_logs) + 1
                    /\ IsPrefix(audit_logs, audit_logs')
                    /\ audit_logs'[Len(audit_logs')].action = ACTION_DEACTIVATED
                    /\ audit_logs'[Len(audit_logs')].registry = rid
                    /\ UNCHANGED <<invitations, grants>>
      ]_vars

ActionCount(rid, action) ==
    Cardinality({i \in DOMAIN audit_logs :
        audit_logs[i].registry = rid /\ audit_logs[i].action = action})

\* C3 witness: activate returned without writing, right after the call that
\* activated the registry: the log's newest row is its one activated row.
C3_Witness ==
    /\ last.op = "activate"
    /\ last.result = "ok"
    /\ ~last.changed
    /\ audit_logs # <<>>
    /\ audit_logs[Len(audit_logs)].action = ACTION_ACTIVATED
    /\ audit_logs[Len(audit_logs)].registry = last.rid
    /\ ActionCount(last.rid, ACTION_ACTIVATED) = 1

\* The audit row of a committed call, matched against the call.
IsAuditOf(row, rid, action, related_object_id, related_object_type) ==
    /\ row.registry = rid
    /\ row.action = action
    /\ row.related_object_id = related_object_id
    /\ row.related_object_type = related_object_type

\* C4: for create, activate, deactivate, accept and reject the store changes
\* only when the call commits, and then by the mutation together with exactly
\* one audit row for it; while the call is in flight, and when it is aborted
\* at any step, the store shows neither.
C4_MutationAndAuditAtomic ==
    [][/\ tx'.op # "none" => Store' = Store
       /\ (tx.op # "none" /\ tx'.op = "none" /\ last'.result # "ok") => Store' = Store
       /\ (tx.op # "none" /\ tx'.op = "none" /\ last'.result = "ok") =>
              /\ Len(audit_logs') = Len(audit_logs) + 1
              /\ IsPrefix(audit_logs, audit_logs')
              /\ grants' = grants
              /\ LET row == audit_logs'[Len(audit_logs')]
                 IN  CASE tx.op = "create" ->
                          /\ registries' = Append(registries, registries'[Len(registries')])
                          /\ invitations' = Append(invitations,
                                 InvitationRow(Len(registries'), tx.domain, STATUS_ACCEPTED))
                          /\ IsAuditOf(row, Len(registries'), ACTION_INVITATION_ADDED,
                                       Len(invitations'), RELATED_OBJECT_INVITATION)
                       [] tx.op = "activate" ->
                          /\ ~registries[tx.rid].is_active
                          /\ registries' = [registries EXCEPT ![tx.rid].is_active = TRUE]
                          /\ invitations' = invitations
                          /\ IsAuditOf(row, tx.rid, ACTION_ACTIVATED, tx.rid,
                                       RELATED_OBJECT_REGISTRY)
                       [] tx.op = "deactivate" ->
                          /\ registries[tx.rid].is_active
                          /\ registries' = [registries EXCEPT ![tx.rid].is_active = FALSE]
                          /\ invitations' = invitations
                          /\ IsAuditOf(row, tx.rid, ACTION_DEACTIVATED, tx.rid,
                                       RELATED_OBJECT_REGISTRY)
                       [] tx.op = "accept" ->
                          /\ registries' = registries
                          /\ invitations' = [invitations EXCEPT
                                                ![tx.inv].status = STATUS_ACCEPTED]
                          /\ IsAuditOf(row, invitations[tx.inv].registry,
                                       ACTION_INVITATION_ACCEPTED, tx.inv,
                                       RELATED_OBJECT_INVITATION)
                       [] tx.op = "reject" ->
                          /\ registries' = registries
                          /\ invitations' = [invitations EXCEPT
                                                ![tx.inv].status = STATUS_REJECTED]
                          /\ IsAuditOf(row, invitations[tx.inv].registry,
                                       ACTION_INVITATION_REJECTED, tx.inv,
                                       RELATED_OBJECT_INVITATION)
                       [] OTHER -> FALSE
      ]_vars

\* C4 witness: a deactivate was aborted after its save and before its audit
\* row: the registry is still active in the store and has no deactivated row.
C4_Witness ==
    /\ last.op = "deactivate"
    /\ last.result = "DatabaseError"
    /\ tx = NoTx
    /\ registries[last.rid].is_active
    /\ ActionCount(last.rid, ACTION_DEACTIVATED) = 0

RowsOfRegistry(table, rid) == {i \in DOMAIN table : table[i].registry = rid}

\* C5: right after create(user, domain, name) the new registry is active and
\* owned by domain, has exactly one invitation (the owner's, accepted) and
\* exactly one audit row (invitation_added for that invitation), its
\* participating domains are {domain} and check_access(domain) succeeds.
C5_CreateYieldsOwnerMembership ==
    (last.op = "create" /\ last.result = "ok") =>
        LET rid == last.rid
            reg == registries[rid]
        IN  /\ rid = Len(registries)
            /\ reg.is_active
            /\ reg.domain = last.domain
            /\ reg.name = last.name
            /\ RowsOfRegistry(invitations, rid) = {last.inv}
            /\ invitations[last.inv] = InvitationRow(rid, last.domain, STATUS_ACCEPTED)
            /\ RowsOfRegistry(audit_logs, rid) = {Len(audit_logs)}
            /\ IsAuditOf(audit_logs[Len(audit_logs)], rid, ACTION_INVITATION_ADDED,
                         last.inv, RELATED_OBJECT_INVITATION)
            /\ audit_logs[Len(audit_logs)].domain = last.domain
            /\ get_participating_domains(reg, invitations, rid) = {last.domain}
            /\ check_access(reg, invitations, rid, last.domain) = "ok"

\* C5 witness: a second registry was created next to one whose owner
\* invitation is no longer accepted.
C5_Witness ==
    /\ last.op = "create"
    /\ last.result = "ok"
    /\ last.rid = 2
    /\ invitations[1].status = STATUS_REJECTED

\* C6 as claimed: accepted and rejected are terminal, no call changes the
\* status of an invitation that is accepted or rejected.
C6_AcceptedRejectedTerminal ==
    [][\A inv \in DOMAIN invitations :
        invitations[inv].status \in {STATUS_ACCEPTED, STATUS_REJECTED} =>
            invitations'[inv].status = invitations[inv].status
      ]_vars

\* C6 amended: an invitation's status never returns to pending; accept
\* leaves it accepted and reject leaves it rejected whatever it was before,
\* and no other call changes it.
C6_StatusSetByLatestAnswer ==
    [][\A inv \in DOMAIN invitations :
        /\ inv \in DOMAIN invitations'
        /\ invitations[inv].status # STATUS_PENDING =>
               invitations'[inv].status # STATUS_PENDING
        /\ invitations'[inv].status # invitations[inv].status =>
               /\ tx.inv = inv
               /\ tx.op \in {"accept", "reject"}
               /\ last'.result = "ok"
        /\ (tx.inv = inv /\ tx'.op = "none" /\ last'.result = "ok") =>
               /\ tx.op = "accept" => invitations'[inv].status = STATUS_ACCEPTED
               /\ tx.op = "reject" => invitations'[inv].status = STATUS_REJECTED
      ]_vars

\* C6 witness: an invitation that was accepted has been rejected afterwards.
C6_Witness ==
    /\ last.op = "reject"
    /\ last.result = "ok"
    /\ invitations[last.inv].status = STATUS_REJECTED
    /\ \E i \in DOMAIN audit_logs :
           IsAuditOf(audit_logs[i], last.rid, ACTION_INVITATION_ACCEPTED, last.inv,
                     RELATED_OBJECT_INVITATION)

\* C7: the audit log is append-only: every step leaves the rows written so
\* far in place and unchanged and adds at most one row after them.
C7_AuditLogAppendOnly ==
    [][/\ IsPrefix(audit_logs, audit_logs')
       /\ Len(audit_logs') \in {Len(audit_logs), Len(audit_logs) + 1}
      ]_vars

\* C7 witness: the log holds the row of create and, after it, the rows of
\* two helper calls.
C7_Witness ==
    /\ Len(audit_logs) = 3
    /\ audit_logs[1].action = ACTION_INVITATION_ADDED
    /\ audit_logs[2].action = ACTION_SCHEMA_CHANGED
    /\ audit_logs[3].action = ACTION_INVITATION_REMOVED
    /\ last.op = "invitation_removed"

\* C8: get_participating_domains() is exactly the set of domains whose
\* invitation to the registry is accepted, for an active and for an inactive
\* registry alike.
C8_ParticipatingDomainsAreAccepted ==
    /\ \A rid \in DOMAIN registries :
           /\ get_participating_domains(registries[rid], invitations, rid)
                  = {d \in Domains : HasAccepted(rid, d)}
           /\ get_participating_domains([registries[rid] EXCEPT !.is_active = ~@],
                                        invitations, rid)
                  = get_participating_domains(registries[rid], invitations, rid)
    /\ last.op = "get_participating_domains" =>
           /\ last.result = "ok"
           /\ last.value = {d \in Domains : HasAccepted(last.rid, d)}

\* C8 witness: the call on an inactive registry returned its owner, and not
\* the domain whose invitation is pending.
C8_Witness ==
    /\ last.op = "get_participating_domains"
    /\ ~registries[last.rid].is_active
    /\ last.value = {registries[last.rid].domain}
    /\ \E i \in DOMAIN invitations :
           invitations[i].registry = last.rid /\ invitations[i].status = STATUS_PENDING

\* C9: data_accessed writes one data_accessed row, of type ucr for a report
\* configuration and application for an application, and for a missing
\* object, an object with no doc_type or any other doc_type raises ValueError
\* and writes nothing.
C9_DataAccessedKinds ==
    [][Returned("data_accessed") =>
        LET obj == last'.obj
            known == /\ obj.truthy
                     /\ obj.has_doc_type
                     /\ obj.doc_type \in {"ReportConfiguration", "Application"}
        IN  IF known
            THEN /\ last'.result = "ok"
                 /\ audit_logs' = Append(audit_logs, audit_logs'[Len(audit_logs')])
                 /\ IsAuditOf(audit_logs'[Len(audit_logs')], last'.rid,
                              ACTION_DATA_ACCESSED, obj.get_id,
                              IF obj.doc_type = "ReportConfiguration"
                              THEN RELATED_OBJECT_UCR ELSE RELATED_OBJECT_APPLICATION)
                 /\ audit_logs'[Len(audit_logs')].domain = last'.domain
                 /\ UNCHANGED <<registries, invitations, grants>>
            ELSE /\ last'.result = "ValueError"
                 /\ Store' = Store
      ]_vars

\* C9 witness: an application access was logged after a report access.
C9_Witness ==
    /\ last.op = "data_accessed"
    /\ last.result = "ok"
    /\ last.obj.doc_type = "Application"
    /\ Len(audit_logs) = 3
    /\ audit_logs[2].related_object_type = RELATED_OBJECT_UCR
    /\ audit_logs[3].related_object_type = RELATED_OBJECT_APPLICATION

\* The name of the finished create gives the slug another registry of the
\* same domain already has.
SlugCollided ==
    \E r \in DOMAIN registries :
        /\ r # last.rid
        /\ registries[r].domain = last.domain
        /\ registries[r].slug.words = slugify_remove_stops(last.name)

C12_CheckOwnershipIffOwner ==
    [][Returned("check_ownership") =>
        /\ Store' = Store
        /\ tx' = tx
        /\ last'.result \in {"ok", RegistryAccessDenied}
        /\ last'.result = RegistryAccessDenied <=>
               last'.domain # registries[last'.rid].domain
      ]_vars

\* C12 witness: the owner passes the check on a registry that is inactive
\* and on which the owner's own invitation is rejected, so that
\* check_access denies the same domain.
C12_Witness ==
    /\ last.op = "check_ownership"
    /\ last.result = "ok"
    /\ ~registries[last.rid].is_active
    /\ ~HasAccepted(last.rid, last.domain)
    /\ check_access(registries[last.rid], invitations, last.rid, last.domain)
           = RegistryAccessDenied

\* C11: under every interleaving of concurrent registry and invitation
\* creations the committed store holds at most one registry per (domain, slug)
\* and at most one invitation per (registry, domain); no request holds an
\* inserted row whose key a committed row or another request's row has, and
\* a creation that was rejected was rejected for a row that is committed.
C11_NoDuplicateUnderConcurrency ==
    /\ \A r1, r2 \in DOMAIN registries :
           (registries[r1].domain = registries[r2].domain
                /\ registries[r1].slug = registries[r2].slug) => r1 = r2
    /\ \A i1, i2 \in DOMAIN invitations :
           (invitations[i1].registry = invitations[i2].registry
                /\ invitations[i1].domain = invitations[i2].domain) => i1 = i2
    /\ \A p \in Procs :
           /\ \A i \in DOMAIN PendingRegistries(sessions[p]) :
                  LET row == PendingRegistries(sessions[p])[i]
                  IN  /\ \A r \in DOMAIN registries :
                             ~(registries[r].domain = row.domain
                                   /\ registries[r].slug = row.slug)
                      /\ \A q \in Procs \ {p} :
                             \A j \in DOMAIN PendingRegistries(sessions[q]) :
                                 LET other == PendingRegistries(sessions[q])[j]
                                 IN  ~(other.domain = row.domain /\ other.slug = row.slug)
           /\ \A i \in DOMAIN PendingInvitations(sessions[p]) :
                  LET row == PendingInvitations(sessions[p])[i]
                  IN  /\ \A k \in DOMAIN invitations :
                             ~(invitations[k].registry = row.registry
                                   /\ invitations[k].domain = row.domain)
                      /\ \A q \in Procs \ {p} :
                             \A j \in DOMAIN PendingInvitations(sessions[q]) :
                                 PendingInvitations(sessions[q])[j] # row
           /\ (sessions[p].result = "IntegrityError" /\ sessions[p].op = "create") =>
                  \E r \in DOMAIN registries :
                      /\ registries[r].domain = sessions[p].domain
                      /\ registries[r].slug = sessions[p].slug
           /\ (sessions[p].result = "IntegrityError"
                   /\ sessions[p].op = "invitation_create") =>
                  \E k \in DOMAIN invitations :
                      /\ invitations[k].registry = sessions[p].rid
                      /\ invitations[k].domain = sessions[p].domain

\* C11 witness: two requests created a registry of the same domain under the
\* same slug at the same time (each chose the slug before the other had
\* committed); one is committed, the other was rejected, and the store holds
\* the one row.
C11_Witness ==
    \E p, q \in Procs :
        /\ p # q
        /\ sessions[p].op = "create" /\ sessions[q].op = "create"
        /\ sessions[p].result = "ok" /\ sessions[p].pc = "idle"
        /\ sessions[q].result = "IntegrityError"
        /\ sessions[p].domain = sessions[q].domain
        /\ sessions[p].slug = sessions[q].slug
        /\ Cardinality({r \in DOMAIN registries :
               /\ registries[r].domain = sessions[q].domain
               /\ registries[r].slug = sessions[q].slug}) = 1

\* This step belongs to a call of activate or deactivate: its save, its
\* commit, its abort, or its return without a change.
ActivateOrDeactivateStep ==
    /\ vars' # vars
    /\ \/ tx.op \in {"activate", "deactivate"}
       \/ tx'.op \in {"activate", "deactivate"}
       \/ last'.op \in {"activate", "deactivate"} /\ tx = NoTx /\ tx' = NoTx

\* C19: no step of activate or deactivate changes an invitation or a grant,
\* so get_participating_domains() of every registry is the same before and
\* after it, and each call that flips is_active adds exactly one audit row:
\* deactivate followed by activate gives back the participating domains and
\* leaves two more rows.
C19_ActivateDeactivateKeepInvitations ==
    [][ActivateOrDeactivateStep =>
        /\ invitations' = invitations
        /\ grants' = grants
        /\ DOMAIN registries' = DOMAIN registries
        /\ \A rid \in DOMAIN registries :
               get_participating_domains(registries'[rid], invitations', rid)
                   = get_participating_domains(registries[rid], invitations, rid)
        /\ IF registries' # registries
           THEN /\ Len(audit_logs') = Len(audit_logs) + 1
                /\ audit_logs'[Len(audit_logs')].action
                       \in {ACTION_ACTIVATED, ACTION_DEACTIVATED}
           ELSE audit_logs' = audit_logs
      ]_vars

\* C19 witness: a registry was deactivated and then reactivated: the two
\* newest audit rows are its deactivated and activated rows, and its
\* participating domains are again the owner alone.
C19_Witness ==
    /\ last.op = "activate"
    /\ last.changed
    /\ Len(audit_logs) >= 3
    /\ IsAuditOf(audit_logs[Len(audit_logs) - 1], last.rid, ACTION_DEACTIVATED,
                 last.rid, RELATED_OBJECT_REGISTRY)
    /\ IsAuditOf(audit_logs[Len(audit_logs)], last.rid, ACTION_ACTIVATED,
                 last.rid, RELATED_OBJECT_REGISTRY)
    /\ registries[last.rid].is_active
    /\ get_participating_domains(registries[last.rid], invitations, last.rid)
           = {registries[last.rid].domain}

\* C20: the grantor of every grant holds an accepted invitation to the
\* grant's registry, and every domain get_granted_domains returns is a
\* participating domain of the registry.
C20_GrantorsAreParticipants ==
    /\ \A g \in DOMAIN grants : HasAccepted(grants[g].registry, grants[g].from_domain)
    /\ (last.op = "get_granted_domains" /\ last.result = "ok") =>
           last.value \subseteq
               get_participating_domains(registries[last.rid], invitations, last.rid)

\* ----------------------------------------------- case hierarchy properties
\* The ids the reverse indices of the given cases refer to.
Targets(db, ids) ==
    UNION {{db[c].reverse_indices[k].referenced_id :
               k \in DOMAIN db[c].reverse_indices} : c \in ids \cap DOMAIN db} \ {""}

\* The ids reachable from the frontier through reverse indices.
RECURSIVE Reachable(_, _, _)
Reachable(db, frontier, visited) ==
    LET known == visited \cup frontier
        new == Targets(db, frontier) \ known
    IN  IF new = {} THEN known ELSE Reachable(db, new, known)

\* The root of the latest call with everything below it, and the ids among
\* them that have no record.
Descendants == Reachable(cases, {traversal.root}, {})

MissingDescendants == Descendants \ DOMAIN cases

ListIds(case_list) == [k \in DOMAIN case_list |-> case_list[k].case_id]

ChildIds(id) == ListIds(cases[id].reverse_indices)

Returned_get_case_hierarchy ==
    traversal.op = "get_case_hierarchy" /\ traversal.result = "ok"

\* C13: get_case_hierarchy ends on every case graph, with cycles and with
\* cases reachable along several paths; when every reference resolves, the
\* list it returns starts with the root and holds each case reachable from the
\* root through reverse indices exactly once.
C13_EachReachableCaseOnce ==
    traversal.op = "get_case_hierarchy" =>
        /\ traversal.result \in {"ok", ResourceNotFound}
        /\ MissingDescendants = {} =>
               /\ traversal.result = "ok"
               /\ traversal.case_list[1].case_id = traversal.root
               /\ Range(ListIds(traversal.case_list)) = Descendants
               /\ Len(traversal.case_list) = Cardinality(Descendants)

\* C13 witness: a's reverse index points back to the root and c is a child
\* of the root and of b; the four cases are listed.
C13_Witness ==
    /\ Returned_get_case_hierarchy
    /\ ChildIds("r") = <<"b", "a", "c">>
    /\ ChildIds("a") = <<"r">>
    /\ ChildIds("b") = <<"c">>
    /\ ChildIds("c") = <<"a">>
    /\ Len(traversal.case_list) = 4

\* Entries i and j of the list are direct children of one node: the
\* traversal gave both the same parent pointer.
Siblings(i, j) ==
    /\ i # j
    /\ traversal.case_list[i].treetable_parent_node_id # Unset
    /\ traversal.case_list[i].treetable_parent_node_id
           = traversal.case_list[j].treetable_parent_node_id

\* C14: among the direct children of one node every open child comes before
\* every closed child, whatever opened_on and closed_on are.
C14_OpenBeforeClosed ==
    Returned_get_case_hierarchy =>
        \A i, j \in DOMAIN traversal.case_list :
            (Siblings(i, j) /\ ~traversal.case_list[i].closed
                 /\ traversal.case_list[j].closed) => i < j

\* C14 witness: b was closed before a was opened and is listed first among
\* the root's reverse indices; a comes before b in the result.
C14_Witness ==
    /\ Returned_get_case_hierarchy
    /\ ChildIds("r") = <<"b", "a", "c">>
    /\ cases["b"].closed /\ ~cases["a"].closed
    /\ cases["b"].closed_on < cases["a"].opened_on
    /\ \E i, j \in DOMAIN traversal.case_list :
           /\ i < j
           /\ Siblings(i, j)
           /\ traversal.case_list[i].case_id = "a"
           /\ traversal.case_list[j].case_id = "b"

\* C15: among the direct children of one node, open children are in
\* ascending order of opened_on with a missing opened_on first, and closed
\* children are in descending order of closed_on.
C15_SiblingsOrderedByDate ==
    Returned_get_case_hierarchy =>
        \A i, j \in DOMAIN traversal.case_list :
            LET x == traversal.case_list[i]
                y == traversal.case_list[j]
            IN  Siblings(i, j) =>
                    /\ (~x.closed /\ ~y.closed /\ x.opened_on = NoDate
                            /\ y.opened_on # NoDate) => i < j
                    /\ (~x.closed /\ ~y.closed /\ x.opened_on # NoDate
                            /\ x.opened_on < y.opened_on) => i < j
                    /\ (x.closed /\ y.closed /\ x.closed_on > y.closed_on) => i < j

\* C15 witness: a and b are closed children of the root, a listed first and
\* closed first: b, closed last, comes before a.
C15_Witness ==
    /\ Returned_get_case_hierarchy
    /\ ChildIds("r") = <<"a", "b">>
    /\ cases["a"].closed /\ cases["b"].closed
    /\ cases["a"].closed_on < cases["b"].closed_on
    /\ \E i, j \in DOMAIN traversal.case_list :
           /\ i < j
           /\ Siblings(i, j)
           /\ traversal.case_list[i].case_id = "b"
           /\ traversal.case_list[j].case_id = "a"

\* The ids the root's live indices refer to, in index order.
ParentIds ==
    [k \in DOMAIN cases[traversal.root].live_indices |->
        cases[traversal.root].live_indices[k].referenced_id]

\* C16: case_hierarchy_context does not fail for an ancestor that cannot be
\* resolved: when the descendants resolve the call returns, and its case_list
\* starts with one slot per live index of the root, in index order: the
\* ancestor itself, marked as ancestor and not expanded, or the placeholder
\* None when the record is missing; the descendant list follows.
C16_UnresolvedAncestorPlaceholder ==
    (traversal.op = "case_hierarchy_context" /\ MissingDescendants = {}) =>
        LET n == Len(ParentIds)
            descendant_case_list ==
                get_case_hierarchy(cases, cases[traversal.root]).case_list
        IN  /\ traversal.result = "ok"
            /\ Len(traversal.case_list) = n + Len(descendant_case_list)
            /\ \A k \in 1..n :
                   IF ParentIds[k] \in DOMAIN cases
                   THEN /\ traversal.case_list[k].case_id = ParentIds[k]
                        /\ traversal.case_list[k].index_info.is_ancestor
                   ELSE traversal.case_list[k] = NoneCase
            /\ \A k \in 1..Len(descendant_case_list) :
                   /\ traversal.case_list[n + k] # NoneCase
                   /\ traversal.case_list[n + k].case_id
                          = descendant_case_list[k].case_id

\* C16 witness: the root's live indices refer to p, which has the root among
\* its own children, and to a missing record: the list is p, None, then the
\* root and its descendants.
C16_Witness ==
    /\ traversal.op = "case_hierarchy_context"
    /\ traversal.result = "ok"
    /\ ParentIds = <<"p", "m">>
    /\ Len(traversal.case_list) >= 4
    /\ traversal.case_list[1].case_id = "p"
    /\ traversal.case_list[2] = NoneCase
    /\ traversal.case_list[3].case_id = "r"

\* C17 as claimed: a descendant reference to a missing record leaves the
\* other branches in place: the traversal returns the cases it can reach,
\* without the broken branch.
C17_BrokenBranchSkipped ==
    (traversal.op = "get_case_hierarchy" /\ MissingDescendants # {}) =>
        /\ traversal.result = "ok"
        /\ Range(ListIds(traversal.case_list)) = Descendants \cap DOMAIN cases

\* C17 amended: a descendant reference to a missing record ends the whole
\* traversal with the lookup failure: get_case_hierarchy returns no list, so
\* no sibling branch is delivered and no placeholder is inserted.
C17_MissingDescendantEndsTraversal ==
    traversal.op = "get_case_hierarchy" =>
        /\ MissingDescendants # {} =>
               /\ traversal.result = ResourceNotFound
               /\ traversal.case_list = <<>>
        /\ \A k \in DOMAIN traversal.case_list : traversal.case_list[k] # NoneCase

\* C17 witness: the root's reverse indices refer to a, to a missing record
\* and to b; the call failed although a and b resolve.
C17_Witness ==
    /\ traversal.op = "get_case_hierarchy"
    /\ traversal.result = ResourceNotFound
    /\ ChildIds("r") = <<"a", "m", "b">>
    /\ ChildIds("a") = <<>>
    /\ ChildIds("b") = <<>>

\* C18: a missing record met while descending leaves get_case_hierarchy,
\* and with it case_hierarchy_context, as a lookup failure, and never as a
\* placeholder; a missing record met while resolving the ancestors does not
\* make case_hierarchy_context fail.
C18_DescendantFailsAncestorTolerated ==
    /\ traversal.op \in {"get_case_hierarchy", "case_hierarchy_context"} =>
           (traversal.result = ResourceNotFound <=> MissingDescendants # {})
    /\ (traversal.op = "case_hierarchy_context" /\ traversal.result = "ok") =>
           /\ Cardinality({k \in DOMAIN traversal.case_list :
                              traversal.case_list[k] = NoneCase})
                  = Cardinality({k \in DOMAIN ParentIds :
                                    ParentIds[k] \notin DOMAIN cases})
           /\ \A k \in DOMAIN traversal.case_list :
                  traversal.case_list[k] = NoneCase => k <= Len(ParentIds)

\* C18 witness: case_hierarchy_context failed on a root whose parent is
\* missing too, for a missing grandchild.
C18_Witness ==
    /\ traversal.op = "case_hierarchy_context"
    /\ traversal.result = ResourceNotFound
    /\ ParentIds = <<"m">>
    /\ ChildIds("r") = <<"a", "b">>
    /\ ChildIds("a") = <<"m">>

\* The case database with every parent pointer taken off.
WithoutPointers(db) ==
    [id \in DOMAIN db |-> [db[id] EXCEPT !.treetable_parent_node_id = Unset]]

\* For each position of the list get_case_hierarchy returns on the root, the
\* id of the node under which the case was expanded: the pointer the
\* traversal sets when none is there.  Unset at the root.
ExpandedUnderIn(db, root) ==
    LET flat == get_case_hierarchy(WithoutPointers(db), WithoutPointers(db)[root])
    IN  [k \in DOMAIN flat.case_list |-> flat.case_list[k].treetable_parent_node_id]

\* The same for the root of the latest call.
ExpandedUnder == ExpandedUnderIn(cases, traversal.root)

\* For each position of the returned list but the first, the position of
\* the node under which the case was expanded.
ParentPosition ==
    LET ids == ListIds(traversal.case_list)
        under == ExpandedUnder
    IN  [k \in DOMAIN ids |->
            IF k = 1 THEN 0 ELSE CHOOSE i \in DOMAIN ids : ids[i] = under[k]]

\* Position k lies in the subtree expanded at position i.
RECURSIVE InSubtree(_, _, _)
InSubtree(parent_position, i, k) ==
    IF k = i THEN TRUE
    ELSE IF k <= 1 THEN FALSE
    ELSE InSubtree(parent_position, i, parent_position[k])

\* C21: the list get_case_hierarchy returns is a depth-first pre-order
\* flattening: it starts with the root, every other case comes after the
\* node under which it was expanded, which holds a reverse index to it; the
\* cases of each subtree fill one contiguous block that starts with the
\* subtree's root; and the blocks of siblings are in the order of the
\* siblings' sort keys.
C21_DepthFirstPreOrder ==
    Returned_get_case_hierarchy =>
        LET case_list == traversal.case_list
            n == Len(case_list)
            under == ExpandedUnder
            parent_position == ParentPosition
        IN  /\ Len(under) = n
            /\ case_list[1].case_id = traversal.root
            /\ \A k \in 2..n :
                   /\ under[k] \in Range(ListIds(case_list))
                   /\ parent_position[k] < k
                   /\ case_list[k].case_id \in Targets(cases, {under[k]})
            /\ \A i \in 1..n :
                   LET block == {k \in 1..n : InSubtree(parent_position, i, k)}
                   IN  block = i..(i + Cardinality(block) - 1)
            /\ \A i, j \in 2..n :
                   (i < j /\ parent_position[i] = parent_position[j]) =>
                       ~KeyLess(_sortkey([case |-> case_list[j]]),
                                _sortkey([case |-> case_list[i]]))

\* C21 witness: the root's reverse indices list b, a, c; b holds c and is
\* closed, a is open: the list is r, a, b, c, with c right after b and a's
\* block before b's.
C21_Witness ==
    /\ Returned_get_case_hierarchy
    /\ ChildIds("r") = <<"b", "a", "c">>
    /\ ChildIds("b") = <<"c">>
    /\ ChildIds("a") = <<>>
    /\ ListIds(traversal.case_list) = <<"r", "a", "b", "c">>

\* The ancestor whose id case_hierarchy_context hands to the entries without
\* a parent pointer: the target of the root's last live index when it
\* resolves, "" when it does not or when the root has no live index.
LastParentId ==
    LET n == Len(ParentIds)
    IN  IF n > 0 /\ ParentIds[n] \in DOMAIN cases THEN ParentIds[n] ELSE ""

\* C22: the parent annotation does not overwrite a pointer that is set.  In
\* the list of get_case_hierarchy a case that had treetable_parent_node_id
\* before the call has the same value after it, the root apart every other
\* case has the id of the node it was expanded under, and the root has none.
\* case_hierarchy_context changes this only for the entries of the
\* descendant list that are then still without a pointer (no attribute, or
\* None): they get the id of the ancestor the root's last live index resolves
\* to, and keep what they have when the root has no live index or the last
\* one does not resolve.
C22_ParentPointerNotOverwritten ==
    [][(traversal'.op \in {"get_case_hierarchy", "case_hierarchy_context"}
            /\ traversal'.result = "ok") =>
        \A under \in {ExpandedUnderIn(cases', traversal'.root)},
           last_parent_id \in {LastParentId'} :
        LET case_list == traversal'.case_list
            n == Len(case_list) - Len(under)
        IN  /\ n = IF traversal'.op = "get_case_hierarchy" THEN 0 ELSE Len(ParentIds')
            /\ \A k \in DOMAIN under :
                   LET entry == case_list[n + k]
                       before == cases[entry.case_id].treetable_parent_node_id
                       structural == IF before # Unset THEN before
                                     ELSE IF k = 1 THEN Unset ELSE under[k]
                   IN  /\ k > 1 => under[k] \in DOMAIN cases
                       /\ IF traversal'.op = "case_hierarchy_context"
                               /\ structural \in {Unset, ""} /\ last_parent_id # ""
                          THEN entry.treetable_parent_node_id = last_parent_id
                          ELSE entry.treetable_parent_node_id = structural
    ]_vars

\* C22 witness: case_hierarchy_context on a root with the resolved ancestor
\* p: the root has the pointer p, its child a the pointer r, and c, which
\* came with the pointer x and was expanded below the root, still has x.
C22_Witness ==
    /\ traversal.op = "case_hierarchy_context"
    /\ traversal.result = "ok"
    /\ ParentIds = <<"p">>
    /\ \E i, j, k \in DOMAIN traversal.case_list :
           /\ traversal.case_list[i].case_id = "r"
           /\ traversal.case_list[i].treetable_parent_node_id = "p"
           /\ traversal.case_list[j].case_id = "a"
           /\ traversal.case_list[j].treetable_parent_node_id = "r"
           /\ traversal.case_list[k].case_id = "c"
           /\ traversal.case_list[k].treetable_parent_node_id = "x"

\* C23: in the case_list case_hierarchy_context returns, a resolved ancestor
\* carries the identifier and relationship of the live index it was reached
\* by, with is_ancestor true; a descendant-list entry whose id is the case_id
\* of a reverse index of the root carries that index's identifier and
\* relationship, with is_ancestor false; the other entries of the descendant
\* list, the root among them, get no index metadata.
C23_IndexInfoOfMatchingReference ==
    (traversal.op = "case_hierarchy_context" /\ traversal.result = "ok") =>
        LET root == cases[traversal.root]
            n == Len(root.live_indices)
        IN  \A k \in DOMAIN traversal.case_list :
                LET entry == traversal.case_list[k]
                    matching == {i \in DOMAIN root.reverse_indices :
                                    root.reverse_indices[i].case_id = entry.case_id}
                IN  IF k <= n
                    THEN entry # NoneCase =>
                             entry.index_info =
                                 [identifier |-> root.live_indices[k].identifier,
                                  relationship |-> root.live_indices[k].relationship,
                                  is_ancestor |-> TRUE]
                    ELSE IF matching # {}
                    THEN \E i \in matching :
                             entry.index_info =
                                 [identifier |-> root.reverse_indices[i].identifier,
                                  relationship |-> root.reverse_indices[i].relationship,
                                  is_ancestor |-> FALSE]
                    ELSE entry.index_info = NoIndexInfo

\* C23 witness: the root has the ancestor p and the children a and b, and c
\* is a child of a only: p is described as an ancestor, b as the descendant
\* of a host/extension index, and c has no index metadata.
C23_Witness ==
    /\ traversal.op = "case_hierarchy_context"
    /\ traversal.result = "ok"
    /\ ParentIds = <<"p", "m">>
    /\ ChildIds("r") = <<"a", "b">>
    /\ ChildIds("a") = <<"c">>
    /\ traversal.case_list[1].index_info
           = [identifier |-> "parent", relationship |-> "child", is_ancestor |-> TRUE]
    /\ \E j, k \in DOMAIN traversal.case_list :
           /\ traversal.case_list[j].case_id = "b"
           /\ traversal.case_list[j].index_info
                  = [identifier |-> "host", relationship |-> "extension",
                     is_ancestor |-> FALSE]
           /\ traversal.case_list[k].case_id = "c"
           /\ traversal.case_list[k].index_info = NoIndexInfo

\* C24 as claimed: the traversals are read-only and independent.  Every case
\* object is created without index metadata, and every one but c without a
\* parent pointer: read-only traversals leave the objects that way, and
\* get_case_hierarchy, which sets only the pointers of the cases it expands,
\* returns a root without a pointer and entries without index metadata,
\* whatever was called on the same objects before.
C24_TraversalsReadOnlyAndIndependent ==
    /\ \A id \in DOMAIN cases :
           /\ cases[id].index_info = NoIndexInfo
           /\ id # "c" => cases[id].treetable_parent_node_id = Unset
    /\ Returned_get_case_hierarchy =>
           /\ traversal.case_list[1].treetable_parent_node_id = Unset
           /\ \A k \in DOMAIN traversal.case_list :
                  traversal.case_list[k].index_info = NoIndexInfo

\* The reverse indices of every case refer to cases whose sort keys differ
\* from one another.
DistinctSiblingKeys ==
    \A id \in DOMAIN cases :
        \A x, y \in Targets(cases, {id}) \cap DOMAIN cases :
            x # y => _sortkey([case |-> cases[x]]) # _sortkey([case |-> cases[y]])

\* The case database without parent pointers and with the root's reverse
\* indices listed in the given order.
Relisted(root, order) ==
    LET db == WithoutPointers(cases)
    IN  [db EXCEPT ![root].reverse_indices =
                       [k \in DOMAIN order |-> db[root].reverse_indices[order[k]]]]

\* C25 as claimed: when the sort keys of siblings are pairwise distinct, the
\* list get_case_hierarchy returns and the parent pointer it gives each case
\* are the same for every order in which the root's reverse indices are
\* listed.
C25_ListingOrderIrrelevant ==
    (Returned_get_case_hierarchy /\ DistinctSiblingKeys) =>
        \A order \in Permutations(DOMAIN cases[traversal.root].reverse_indices) :
            LET db == Relisted(traversal.root, order)
                other == get_case_hierarchy(db, db[traversal.root])
            IN  /\ other.result = "ok"
                /\ ListIds(other.case_list) = ListIds(traversal.case_list)
                /\ [k \in DOMAIN other.case_list |->
                       other.case_list[k].treetable_parent_node_id]
                       = ExpandedUnder

\* The 'activated' and 'deactivated' actions of the registry's audit rows,
\* oldest first.
ActivationLog(rid) ==
    LET rows == SelectSeq(audit_logs,
                    LAMBDA row : row.registry = rid
                        /\ row.action \in {ACTION_ACTIVATED, ACTION_DEACTIVATED})
    IN  [k \in DOMAIN rows |-> rows[k].action]

\* C26 as claimed: whatever the interleaving of activate and deactivate
\* calls of concurrent requests, each on its own loaded object, the
\* 'activated' and 'deactivated' rows of a registry alternate, the first of
\* them is 'deactivated', and the stored is_active is the state the last of
\* them names.
C26_ActivationLogAlternates ==
    \A rid \in DOMAIN registries :
        LET log == ActivationLog(rid)
        IN  /\ \A k \in DOMAIN log :
                   log[k] = IF k % 2 = 1 THEN ACTION_DEACTIVATED ELSE ACTION_ACTIVATED
            /\ registries[rid].is_active
                   = (Len(log) = 0 \/ log[Len(log)] = ACTION_ACTIVATED)

\* C27: accessible_to_domain(D) agrees with check_access: a registry is in
\* the queryset exactly when its check_access(D) succeeds, and with
\* has_grants=True exactly when in addition its get_granted_domains(D) is
\* not empty; the call without a slug returns these registries.
C27_AccessibleAgreesWithCheckAccess ==
    /\ \A rid \in DOMAIN registries, domain \in Domains :
           LET access == check_access(registries[rid], invitations, rid, domain) = "ok"
               granted == get_granted_domains(registries[rid], invitations, grants,
                                              rid, domain)
           IN  /\ rid \in Range(accessible_to_domain(registries, invitations, grants,
                                                     domain, NoSlug, FALSE))
                      <=> access
               /\ rid \in Range(accessible_to_domain(registries, invitations, grants,
                                                     domain, NoSlug, TRUE))
                      <=> (access /\ granted.result = "ok" /\ granted.value # {})
    /\ (last.op = "accessible_to_domain" /\ last.obj.slug = NoSlug) =>
           last.value = {rid \in DOMAIN registries :
                            /\ check_access(registries[rid], invitations, rid,
                                            last.domain) = "ok"
                            /\ last.obj.has_grants =>
                                   GrantedFrom(grants, rid, last.domain) # {}}

\* C27 witness: the call with has_grants=True returned a registry, and a
\* second registry the domain has accepted is left out for want of a grant.
C27_Witness ==
    /\ last.op = "accessible_to_domain"
    /\ last.obj.has_grants /\ last.obj.slug = NoSlug
    /\ last.value # {}
    /\ \E rid \in DOMAIN registries :
           /\ rid \notin last.value
           /\ check_access(registries[rid], invitations, rid, last.domain) = "ok"

\* C28: grant_added and grant_removed succeed for any RegistryGrant and
\* append exactly one audit row: action grant_added (resp. grant_removed),
\* related-object type grant, the grant's id, the grant's to_domains in the
\* detail, and the granting domain (from_domain) as the domain.
C28_GrantCallsLogOneRow ==
    [][ last'.op \in {"grant_added", "grant_removed"} =>
            /\ last'.result = "ok"
            /\ Len(audit_logs') = Len(audit_logs) + 1
            /\ SubSeq(audit_logs', 1, Len(audit_logs)) = audit_logs
            /\ \E g \in DOMAIN grants :
                   /\ grants[g].registry = last'.rid
                   /\ audit_logs'[Len(audit_logs')].action
                          = (IF last'.op = "grant_added" THEN ACTION_GRANT_ADDED
                             ELSE ACTION_GRANT_REMOVED)
                   /\ audit_logs'[Len(audit_logs')].related_object_type
                          = RELATED_OBJECT_GRANT
                   /\ audit_logs'[Len(audit_logs')].related_object_id = g
                   /\ audit_logs'[Len(audit_logs')].detail
                          = <<"to_domains">> \o grants[g].to_domains
                   /\ audit_logs'[Len(audit_logs')].domain = grants[g].from_domain
      ]_vars

\* The task is inside the with block of its critical section.
InSyncBody(p) == tasks[p].op = "sync" /\ Running(tasks[p])

InCloseBody(p) == tasks[p].op = "close" /\ Running(tasks[p])

\* The task's run of close_mobile_worker_attendee_cases finishes in this step.
CloseFinishes(p) ==
    /\ tasks[p].op = "close" /\ Running(tasks[p])
    /\ tasks'[p].op = "close" /\ tasks'[p].pc = "done"

\* C30: sync_mobile_worker_attendees and close_mobile_worker_attendee_cases
\* are never inside their critical sections at the same time on one domain,
\* and when a close finishes every attendee case of a mobile worker of the
\* domain is closed.
C30_SyncAndCloseExclusive ==
    [][ /\ \A p \in Procs, q \in Procs :
               (InSyncBody(p)' /\ InCloseBody(q)') => tasks'[p].domain # tasks'[q].domain
        /\ \A p \in Procs :
               CloseFinishes(p) =>
                   \A i \in DOMAIN attendees' :
                       (/\ attendees'[i].domain = tasks[p].domain
                        /\ attendees'[i].user_id \in Range(by_domain(tasks[p].domain)))
                       => Closed(attendees'[i])
      ]_vars
====
